---- MODULE Spec2Model ----
(***************************************************************************)
(* WhatsApp conversation orchestration and catalog dispatch of the         *)
(* fincasya backend (Convex functions convex/http.ts, convex/ycloud.ts,    *)
(* convex/whatsappCatalogs.ts).                                            *)
(*                                                                         *)
(* Convex runs every mutation and every query as one serializable          *)
(* transaction, so each of them is one atomic action here.  An httpAction  *)
(* or an internalAction is not a transaction: it is a sequence of such     *)
(* steps, and the steps of concurrent webhook deliveries interleave.       *)
(***************************************************************************)
EXTENDS Integers, Sequences, FiniteSets, TLC

\* ----------------------------------------------------------------- bounds
MaxDeliveries == 2
MaxAdminOps == 1
MaxCatalogOps == 2
MaxLinkOps == 2
MaxEntries == 2

\* ----------------------------------------------------------------- values
Phones == {"p1", "p2"}
EventIds == {"e1", "e2"}
Deliveries == 1..MaxDeliveries
NoId == 0
CONSULTANT_WELCOME_MESSAGE == "welcome"
GeneratedTexts == {"reply", ""}

VARIABLES
    ycloudProcessedEvents,  \* table ycloudProcessedEvents: set of event ids
    contacts,               \* table contacts, in creation order; _id = index
    conversations,          \* table conversations, in creation order; _id = index
    messages,               \* table messages, in creation order
    clock,                  \* Date.now()
    req,                    \* per delivery: the handler's position and locals
    outbox,                 \* calls made to the YCloud senders, in order
    adminOps,               \* number of dashboard operations performed
    whatsappCatalogs,       \* table whatsappCatalogs, in creation order
    resolution,             \* the catalog resolution of a multi-listing dispatch
    catalogOps,             \* number of catalog mutations performed
    propertyWhatsAppCatalog, \* table propertyWhatsAppCatalog, in creation order
    scheduled,              \* jobs handed to ctx.scheduler.runAfter, in order
    linkOp,                 \* the last link mutation called: arguments, state before
    linkOps,                \* number of link mutations called
    metaSync,               \* which copy of propertyWhatsAppCatalog is deployed
    lookup,                 \* a call of getProductRetailerIdsForProperties
    payloadCall,            \* a call of buildMetaPayload: the listing and the payload
    syncRun,                \* a run of a bulk resync action of metaCatalog
    dispatch,               \* maybeSendCatalogForUserMessage after its catalog is resolved
    metaCatalog,            \* scheduled jobs run so far and the products Meta holds
    parseCall               \* a call of a parser of ycloud.ts: message, clock, result

vars == <<ycloudProcessedEvents, contacts, conversations, messages, clock, req,
          outbox, adminOps, whatsappCatalogs, resolution, catalogOps,
          propertyWhatsAppCatalog, scheduled, linkOp, linkOps, metaSync, lookup,
          payloadCall, syncRun, dispatch, metaCatalog, parseCall>>

flowVars == <<dispatch, metaCatalog, parseCall>>

metaVars == <<payloadCall, syncRun, flowVars>>

linkVars == <<propertyWhatsAppCatalog, scheduled, linkOp, linkOps, metaSync, lookup>>

webhookVars == <<ycloudProcessedEvents, contacts, conversations, messages, clock,
                 req, outbox, adminOps>>

catalogVars == <<whatsappCatalogs, resolution, catalogOps>>

stores == <<ycloudProcessedEvents, contacts, conversations, messages>>

\* --------------------------------------------------------- webhook payload
\* evt.type, the text body and the media link/caption of whatsappInboundMessage.
\* "" stands for an absent or empty field, " " for a blank one.
Trim(s) == IF s = " " THEN "" ELSE s

InboundMessages ==
    { [type |-> "text",  body |-> "hola", link |-> "",    caption |-> ""],
      [type |-> "text",  body |-> " ",    link |-> "",    caption |-> ""],
      [type |-> "text",  body |-> "",     link |-> "",    caption |-> ""],
      [type |-> "audio", body |-> "",     link |-> "url", caption |-> ""],
      [type |-> "image", body |-> "",     link |-> "url", caption |-> "hola"],
      [type |-> "image", body |-> "",     link |-> "",    caption |-> "hola"],
      [type |-> "text",  body |-> "",     link |-> "url", caption |-> ""] }

Payloads ==
    { [json |-> "invalid"], [json |-> "null"], [json |-> "object", type |-> "other"] }
    \cup { [json |-> "object", type |-> "inbound", id |-> e, from |-> p, msg |-> m] :
             e \in EventIds, p \in Phones \cup {""}, m \in InboundMessages }
    \cup { [json |-> "object", type |-> "outbound", to |-> p] : p \in Phones \cup {""} }

\* a derivation that gives a message of no supported shape a placeholder content
DeriveContent_Placeholder(evt) ==
    IF evt.type = "text" /\ evt.body # ""
      THEN [content |-> Trim(evt.body), mediaUrl |-> ""]
    ELSE IF evt.type = "image" /\ evt.link # ""
      THEN [content |-> IF Trim(evt.caption) # "" THEN Trim(evt.caption) ELSE "[Imagen]",
            mediaUrl |-> evt.link]
    ELSE IF evt.type = "audio" /\ evt.link # ""
      THEN [content |-> "[Audio]", mediaUrl |-> evt.link]
    ELSE IF evt.type = "video" /\ evt.link # ""
      THEN [content |-> IF Trim(evt.caption) # "" THEN Trim(evt.caption) ELSE "[Video]",
            mediaUrl |-> evt.link]
    ELSE IF evt.type = "document" /\ evt.link # ""
      THEN [content |-> IF Trim(evt.caption) # "" THEN Trim(evt.caption) ELSE "[Documento]",
            mediaUrl |-> evt.link]
    ELSE [content |-> "[Mensaje]", mediaUrl |-> ""]

\* content and mediaUrl as the handler derives them from the inbound message
DeriveContent(evt) ==
    IF evt.type = "text" /\ evt.body # ""
      THEN [content |-> Trim(evt.body), mediaUrl |-> ""]
    ELSE IF evt.type = "image" /\ evt.link # ""
      THEN [content |-> IF Trim(evt.caption) # "" THEN Trim(evt.caption) ELSE "[Imagen]",
            mediaUrl |-> evt.link]
    ELSE IF evt.type = "audio" /\ evt.link # ""
      THEN [content |-> "[Audio]", mediaUrl |-> evt.link]
    ELSE IF evt.type = "video" /\ evt.link # ""
      THEN [content |-> IF Trim(evt.caption) # "" THEN Trim(evt.caption) ELSE "[Video]",
            mediaUrl |-> evt.link]
    ELSE IF evt.type = "document" /\ evt.link # ""
      THEN [content |-> IF Trim(evt.caption) # "" THEN Trim(evt.caption) ELSE "[Documento]",
            mediaUrl |-> evt.link]
    ELSE [content |-> "", mediaUrl |-> ""]

\* the inbound message has no text (body or caption, blanks aside) and no media link
Bare(evt) == Trim(evt.body) = "" /\ Trim(evt.caption) = "" /\ evt.link = ""

\* ------------------------------------------------------------ conversations
MaxOf(S) == CHOOSE x \in S : \A y \in S : y <= x

ContactByPhone(cts, phone) ==
    LET S == {i \in DOMAIN cts : cts[i].phone = phone}
    IN IF S = {} THEN NoId ELSE CHOOSE i \in S : TRUE

ConversationsOf(convs, contactId) == {i \in DOMAIN convs : convs[i].contactId = contactId}

IsActive(status) == status \in {"ai", "human"}

\* all.find(...) over the contact's conversations in descending creation order
FindActive(convs, contactId) ==
    LET S == {i \in ConversationsOf(convs, contactId) : IsActive(convs[i].status)}
    IN IF S = {} THEN NoId ELSE MaxOf(S)

FindLatestResolved(convs, contactId) ==
    LET S == {i \in ConversationsOf(convs, contactId) : convs[i].status = "resolved"}
    IN IF S = {} THEN NoId ELSE MaxOf(S)

\* .order("desc").first() over the contact's conversations
LatestConversation(convs, contactId) ==
    LET S == ConversationsOf(convs, contactId)
    IN IF S = {} THEN NoId ELSE MaxOf(S)

\* the arguments generateReplyWithRagAndFincas is called with besides the message
GenerationArgs_Untold(singleFincaSent, fincaTitle) ==
    [called |-> TRUE, singleFincaCatalogSent |-> FALSE, fincaTitle |-> ""]

GenerationArgs(singleFincaSent, fincaTitle) ==
    [called |-> TRUE, singleFincaCatalogSent |-> singleFincaSent,
     fincaTitle |-> fincaTitle]

\* generateReplyWithRagAndFincas not called
NotTold == [called |-> FALSE, singleFincaCatalogSent |-> FALSE, fincaTitle |-> ""]

IdleReq ==
    [pc |-> "idle", kind |-> "", eventId |-> "", phone |-> "", text |-> "",
     contactId |-> NoId, conversationId |-> NoId, isNew |-> FALSE,
     status |-> "", singleFincaSent |-> FALSE, fincaTitle |-> "",
     replyText |-> "", response |-> 0, failed |-> "",
     reactivated |-> FALSE, bare |-> FALSE, ran |-> {},
     caught |-> {}, told |-> NotTold]

WebhookInit ==
    /\ ycloudProcessedEvents = {}
    /\ contacts = <<>>
    /\ conversations = <<>>
    /\ messages = <<>>
    /\ clock = 1
    /\ req = [d \in Deliveries |-> IdleReq]
    /\ outbox = <<>>
    /\ adminOps = 0

IdleResolution ==
    [pc |-> "idle", location |-> <<>>, byKeyword |-> NoId, chosen |-> NoId,
     seen |-> <<>>]

CatalogInit ==
    /\ whatsappCatalogs = <<>>
    /\ resolution = IdleResolution
    /\ catalogOps = 0

IdleLinkOp ==
    [name |-> "", propertyId |-> "", catalogId |-> NoId, productRetailerId |-> "",
     entries |-> <<>>, links |-> <<>>, catalogs |-> <<>>, jobs |-> 0,
     deleted |-> <<>>, threw |-> FALSE]

IdleLookup ==
    [pc |-> "idle", catalogId |-> NoId, propertyIds |-> {}, rows |-> <<>>,
     result |-> <<>>]

LinkInit(sync) ==
    /\ propertyWhatsAppCatalog = <<>>
    /\ scheduled = <<>>
    /\ linkOp = IdleLinkOp
    /\ linkOps = 0
    /\ metaSync = sync
    /\ lookup = IdleLookup

\* no payload asked for, no resync running
IdlePayloadCall == [pc |-> "idle"]
IdleSyncRun == [pc |-> "idle"]

\* the multi-listing dispatch has not looked up any product id
IdleDispatch ==
    [pc |-> "idle", fincas |-> {}, chosen |-> NoId, catalogId |-> "",
     entries |-> <<>>, lookups |-> <<>>, defaults |-> <<>>, sent |-> <<>>]

\* no scheduled job has run, Meta holds no product
EmptyMetaCatalog == [ran |-> 0, products |-> {}]

\* no parser called
IdleParseCall == [pc |-> "idle"]

FlowInit ==
    /\ dispatch = IdleDispatch
    /\ metaCatalog = EmptyMetaCatalog
    /\ parseCall = IdleParseCall

MetaInit ==
    /\ payloadCall = IdlePayloadCall
    /\ syncRun = IdleSyncRun
    /\ FlowInit

Init == WebhookInit /\ CatalogInit /\ LinkInit(TRUE) /\ MetaInit

\* ------------------------------------------------- mutations of convex/ycloud.ts
\* recordProcessedEvent without the lookup of the existing record
recordProcessedEvent_NoLookup(events, eventId) ==
    [events |-> events \cup {eventId}, duplicate |-> FALSE]

\* recordProcessedEvent: one transaction, so the lookup and the insert are atomic
recordProcessedEvent(events, eventId) ==
    IF eventId \in events
      THEN [events |-> events, duplicate |-> TRUE]
      ELSE [events |-> events \cup {eventId}, duplicate |-> FALSE]

\* getOrCreateContact without the lookup by phone
getOrCreateContact_NoLookup(cts, phone, name) ==
    [contacts |-> Append(cts, [phone |-> phone,
                               name |-> IF name # "" THEN name ELSE phone]),
     contactId |-> Len(cts) + 1, created |-> TRUE]

getOrCreateContact(cts, phone, name) ==
    LET existing == ContactByPhone(cts, phone)
    IN IF existing # NoId
         THEN [contacts |-> cts, contactId |-> existing, created |-> FALSE]
         ELSE [contacts |-> Append(cts, [phone |-> phone,
                                         name |-> IF name # "" THEN name ELSE phone]),
               contactId |-> Len(cts) + 1, created |-> TRUE]

\* getOrCreateConversation without the reuse of a resolved conversation
getOrCreateConversation_NoReuse(convs, msgs, contactId, now) ==
    LET active == FindActive(convs, contactId)
    IN IF active # NoId
         THEN [conversations |-> convs, messages |-> msgs,
               conversationId |-> active, isNew |-> FALSE]
       ELSE [conversations |-> Append(convs, [contactId |-> contactId, status |-> "ai",
                                               lastMessageAt |-> now, createdAt |-> now]),
             messages |-> Append(msgs, [conversationId |-> Len(convs) + 1,
                                        sender |-> "assistant",
                                        content |-> CONSULTANT_WELCOME_MESSAGE]),
             conversationId |-> Len(convs) + 1, isNew |-> TRUE]

\* getOrCreateConversation that takes only a conversation in status ai for active
getOrCreateConversation_AiOnly(convs, msgs, contactId, now) ==
    LET S == {i \in ConversationsOf(convs, contactId) : convs[i].status = "ai"}
        latestResolved == FindLatestResolved(convs, contactId)
    IN IF S # {}
         THEN [conversations |-> convs, messages |-> msgs,
               conversationId |-> MaxOf(S), isNew |-> FALSE]
       ELSE IF latestResolved # NoId
         THEN [conversations |-> [convs EXCEPT ![latestResolved].status = "ai"],
               messages |-> msgs,
               conversationId |-> latestResolved, isNew |-> FALSE]
       ELSE [conversations |-> Append(convs, [contactId |-> contactId, status |-> "ai",
                                               lastMessageAt |-> now, createdAt |-> now]),
             messages |-> Append(msgs, [conversationId |-> Len(convs) + 1,
                                        sender |-> "assistant",
                                        content |-> CONSULTANT_WELCOME_MESSAGE]),
             conversationId |-> Len(convs) + 1, isNew |-> TRUE]

getOrCreateConversation(convs, msgs, contactId, now) ==
    LET active == FindActive(convs, contactId)
        latestResolved == FindLatestResolved(convs, contactId)
    IN IF active # NoId
         THEN [conversations |-> convs, messages |-> msgs,
               conversationId |-> active, isNew |-> FALSE]
       ELSE IF latestResolved # NoId
         THEN [conversations |-> [convs EXCEPT ![latestResolved].status = "ai"],
               messages |-> msgs,
               conversationId |-> latestResolved, isNew |-> FALSE]
       ELSE [conversations |-> Append(convs, [contactId |-> contactId, status |-> "ai",
                                               lastMessageAt |-> now, createdAt |-> now]),
             messages |-> Append(msgs, [conversationId |-> Len(convs) + 1,
                                        sender |-> "assistant",
                                        content |-> CONSULTANT_WELCOME_MESSAGE]),
             conversationId |-> Len(convs) + 1, isNew |-> TRUE]

\* markOutboundAsHuman without the check of the conversation's status
markOutboundAsHuman_AnyStatus(cts, convs, phone) ==
    LET contact == ContactByPhone(cts, phone)
        conv == LatestConversation(convs, contact)
    IN IF contact = NoId \/ conv = NoId THEN convs
       ELSE [convs EXCEPT ![conv].status = "human"]

markOutboundAsHuman(cts, convs, phone) ==
    LET contact == ContactByPhone(cts, phone)
        conv == LatestConversation(convs, contact)
    IN IF contact = NoId THEN convs
       ELSE IF conv # NoId /\ IsActive(convs[conv].status)
         THEN [convs EXCEPT ![conv].status = "human"]
       ELSE convs

\* --------------------------- convex/messages.ts and convex/conversations.ts
insertUserMessage(msgs, conversationId, content) ==
    Append(msgs, [conversationId |-> conversationId, sender |-> "user",
                  content |-> content])

insertAssistantMessage(msgs, conversationId, content) ==
    Append(msgs, [conversationId |-> conversationId, sender |-> "assistant",
                  content |-> content])

getById(convs, conversationId) ==
    IF conversationId \in DOMAIN convs THEN convs[conversationId].status ELSE ""

updateLastMessageAt(convs, conversationId, now) ==
    IF conversationId \in DOMAIN convs
      THEN [convs EXCEPT ![conversationId].lastMessageAt = now]
      ELSE convs

escalateToHuman(convs, id) ==
    IF IsActive(convs[id].status) THEN [convs EXCEPT ![id].status = "human"] ELSE convs

setToAiPublic(convs, id) == [convs EXCEPT ![id].status = "ai"]

resolveConversation(convs, id) == [convs EXCEPT ![id].status = "resolved"]

\* ------------------------------------------- POST /webhooks/ycloud, step by step
\* req[d].ran records which steps the delivery has run
Step(r, name, pc) == [r EXCEPT !.pc = pc, !.ran = @ \cup {name}]

\* the handler's last statement: 200 {ok: true, ...}
Acknowledge(r) == [r EXCEPT !.pc = "done", !.response = 200]

\* a catch of JSON.parse that goes on to the acknowledgement
InvalidJson_Acknowledged(r) == Acknowledge([r EXCEPT !.kind = "invalid"])

\* the catch of JSON.parse: 400 {error: "Invalid JSON"}
InvalidJson(r) == [r EXCEPT !.pc = "done", !.kind = "invalid", !.response = 400]

\* JSON.parse, the payload's shape and the derivation of content and mediaUrl;
\* a payload that is neither a usable inbound message nor an outbound one falls
\* through both branches to the acknowledgement
HttpReceive(d) ==
    /\ req[d].pc = "idle"
    /\ IF d = 1 THEN TRUE ELSE req[d - 1].pc # "idle"
    /\ \E body \in Payloads :
         req' = [req EXCEPT ![d] =
           IF body.json = "invalid"
             THEN InvalidJson(@)
           ELSE IF body.json = "null"
             \* JSON.parse("null") succeeds and parsed.type then throws
             THEN [@ EXCEPT !.pc = "done", !.kind = "null", !.response = 500,
                            !.failed = "parsed.type"]
           ELSE IF body.type = "inbound"
             THEN LET c == DeriveContent(body.msg)
                  IN IF body.from # "" /\ (c.content # "" \/ c.mediaUrl # "")
                       THEN [@ EXCEPT !.pc = "dedupe", !.kind = "inbound",
                                      !.eventId = body.id, !.phone = body.from,
                                      !.text = c.content, !.bare = Bare(body.msg)]
                       ELSE Acknowledge([@ EXCEPT !.kind = "ignored",
                                                  !.eventId = body.id,
                                                  !.bare = Bare(body.msg)])
           ELSE IF body.type = "outbound" /\ body.to # ""
             THEN [@ EXCEPT !.pc = "markOutbound", !.kind = "outbound", !.phone = body.to]
           ELSE Acknowledge([@ EXCEPT !.kind = "other"])]
    /\ UNCHANGED <<stores, clock, outbox, adminOps, catalogVars, linkVars, metaVars>>

HttpDedupe(d) ==
    /\ req[d].pc = "dedupe"
    /\ LET r == recordProcessedEvent(ycloudProcessedEvents, req[d].eventId)
       IN /\ ycloudProcessedEvents' = r.events
          /\ req' = [req EXCEPT ![d] =
               IF r.duplicate THEN Acknowledge(Step([@ EXCEPT !.kind = "duplicate"],
                                                    "dedupe", "done"))
                              ELSE Step(@, "dedupe", "getContact")]
    /\ UNCHANGED <<contacts, conversations, messages, clock, outbox, adminOps, catalogVars, linkVars, metaVars>>

HttpMarkOutbound(d) ==
    /\ req[d].pc = "markOutbound"
    /\ conversations' = markOutboundAsHuman(contacts, conversations, req[d].phone)
    /\ req' = [req EXCEPT ![d] = Acknowledge(Step(@, "markOutbound", "done"))]
    /\ UNCHANGED <<ycloudProcessedEvents, contacts, messages, clock, outbox, adminOps, catalogVars, linkVars, metaVars>>

\* --------------------------------------------- processInboundMessage, step by step
\* shouldReply that only excludes closed conversations
shouldReply_UnlessResolved(status) == status # "resolved"

shouldReply(status) == status = "ai"

\* what follows the status read: nothing, the canned welcome, or the two catalog
\* checks and the generated reply
\* ReplyPlan that treats a new conversation like an existing one
ReplyPlan_NoShortCircuit(status, isNew) ==
    IF ~shouldReply(status) THEN "updateLast" ELSE "single"

ReplyPlan(status, isNew) ==
    IF ~shouldReply(status) THEN "updateLast"
    ELSE IF isNew THEN "send"
    ELSE "single"

PimGetContact(d) ==
    /\ req[d].pc = "getContact"
    /\ LET r == getOrCreateContact(contacts, req[d].phone, "")
       IN /\ contacts' = r.contacts
          /\ req' = [req EXCEPT ![d] =
               Step([@ EXCEPT !.contactId = r.contactId], "getContact", "getConversation")]
    /\ UNCHANGED <<ycloudProcessedEvents, conversations, messages, clock, outbox, adminOps, catalogVars, linkVars, metaVars>>

PimGetConversation(d) ==
    /\ req[d].pc = "getConversation"
    /\ LET r == getOrCreateConversation(conversations, messages, req[d].contactId, clock)
       IN /\ conversations' = r.conversations
          /\ messages' = r.messages
          /\ req' = [req EXCEPT ![d] =
               Step([@ EXCEPT !.conversationId = r.conversationId, !.isNew = r.isNew,
                              !.reactivated =
                                 /\ FindActive(conversations, req[d].contactId) = NoId
                                 /\ FindLatestResolved(conversations, req[d].contactId) # NoId],
                    "getConversation", "insertUser")]
          /\ clock' = IF r.isNew THEN clock + 1 ELSE clock
    /\ UNCHANGED <<ycloudProcessedEvents, contacts, outbox, adminOps, catalogVars, linkVars, metaVars>>

PimInsertUserMessage(d) ==
    /\ req[d].pc = "insertUser"
    /\ messages' = insertUserMessage(messages, req[d].conversationId, req[d].text)
    /\ req' = [req EXCEPT ![d] = Step(@, "insertUser", "getById")]
    /\ UNCHANGED <<ycloudProcessedEvents, contacts, conversations, clock, outbox, adminOps, catalogVars, linkVars, metaVars>>

\* the status is read here; shouldReply and the reply's branch follow from it
PimGetById(d) ==
    /\ req[d].pc = "getById"
    /\ LET status == getById(conversations, req[d].conversationId)
       IN req' = [req EXCEPT ![d] =
            IF status = "" THEN Acknowledge(Step(@, "getById", "done"))
            ELSE Step([@ EXCEPT !.status = status,
                                !.replyText = IF shouldReply(status) /\ req[d].isNew
                                                THEN CONSULTANT_WELCOME_MESSAGE ELSE ""],
                      "getById", ReplyPlan(status, req[d].isNew))]
    /\ UNCHANGED <<stores, clock, outbox, adminOps, catalogVars, linkVars, metaVars>>

\* maybeSendSingleFincaCatalogForUserMessage: a card is sent, or nothing matches,
\* or a query or the sender throws (caught by the caller)
PimSingleFinca(d) ==
    /\ req[d].pc = "single"
    /\ \E outcome \in {"sent", "none", "throw"} :
         /\ outbox' = IF outcome = "sent"
                        THEN Append(outbox, [by |-> d, to |-> req[d].phone,
                                             kind |-> "product", text |-> "finca"])
                        ELSE outbox
         /\ req' = [req EXCEPT ![d] =
              Step([@ EXCEPT !.singleFincaSent = (outcome = "sent"),
                             !.fincaTitle = IF outcome = "sent" THEN "finca" ELSE "",
                             !.caught = IF outcome = "throw" THEN @ \cup {"single"}
                                                             ELSE @],
                   "single", "multi")]
    /\ UNCHANGED <<stores, clock, adminOps, catalogVars, linkVars, metaVars>>

\* maybeSendCatalogForUserMessage, caught by the caller in the same way
PimCatalog(d) ==
    /\ req[d].pc = "multi"
    /\ \E outcome \in {"sent", "none", "throw"} :
         /\ outbox' = IF outcome = "sent"
                        THEN Append(outbox, [by |-> d, to |-> req[d].phone,
                                             kind |-> "product_list", text |-> "fincas"])
                        ELSE outbox
         /\ req' = [req EXCEPT ![d] =
              Step([@ EXCEPT !.caught = IF outcome = "throw" THEN @ \cup {"multi"}
                                                             ELSE @],
                   "multi", "generate")]
    /\ UNCHANGED <<stores, clock, adminOps, catalogVars, linkVars, metaVars>>

\* generateReplyWithRagAndFincas up to generateText: not inside any try block, so
\* a failure ends processInboundMessage and, uncaught there too, the http handler
PimGenerate(d) ==
    /\ req[d].pc = "generate"
    /\ LET told == GenerationArgs(req[d].singleFincaSent, req[d].fincaTitle)
       IN \/ \E text \in GeneratedTexts :
               req' = [req EXCEPT ![d] =
                 Step([@ EXCEPT !.replyText = text, !.told = told],
                      "generate", "insertAssistant")]
          \/ req' = [req EXCEPT ![d] =
                 Step([@ EXCEPT !.response = 500, !.failed = "generate", !.told = told],
                      "generate", "done")]
    /\ UNCHANGED <<stores, clock, outbox, adminOps, catalogVars, linkVars, metaVars>>

PimInsertAssistantMessage(d) ==
    /\ req[d].pc = "insertAssistant"
    /\ messages' = insertAssistantMessage(messages, req[d].conversationId,
                                          req[d].replyText)
    /\ req' = [req EXCEPT ![d] =
         Step(@, "insertAssistant", IF req[d].replyText # "" THEN "send" ELSE "updateLast")]
    /\ UNCHANGED <<ycloudProcessedEvents, contacts, conversations, clock, outbox, adminOps, catalogVars, linkVars, metaVars>>

\* sendWhatsAppMessage inside try/catch: delivered, or the error is logged
PimSend(d) ==
    /\ req[d].pc = "send"
    /\ \E ok \in BOOLEAN :
         outbox' = IF ok THEN Append(outbox, [by |-> d, to |-> req[d].phone,
                                              kind |-> "text", text |-> req[d].replyText])
                         ELSE outbox
    /\ req' = [req EXCEPT ![d] = Step(@, "send", "updateLast")]
    /\ UNCHANGED <<stores, clock, adminOps, catalogVars, linkVars, metaVars>>

PimUpdateLastMessageAt(d) ==
    /\ req[d].pc = "updateLast"
    /\ conversations' = updateLastMessageAt(conversations, req[d].conversationId, clock)
    /\ req' = [req EXCEPT ![d] = Acknowledge(Step(@, "updateLast", "done"))]
    /\ clock' = clock + 1
    /\ UNCHANGED <<ycloudProcessedEvents, contacts, messages, outbox, adminOps, catalogVars, linkVars, metaVars>>

\* ------------------------------------------------- dashboard operations
EscalateToHuman(c) ==
    /\ adminOps < MaxAdminOps
    /\ conversations' = escalateToHuman(conversations, c)
    /\ adminOps' = adminOps + 1
    /\ UNCHANGED <<ycloudProcessedEvents, contacts, messages, clock, req, outbox, catalogVars, linkVars, metaVars>>

SetToAiPublic(c) ==
    /\ adminOps < MaxAdminOps
    /\ conversations' = setToAiPublic(conversations, c)
    /\ adminOps' = adminOps + 1
    /\ UNCHANGED <<ycloudProcessedEvents, contacts, messages, clock, req, outbox, catalogVars, linkVars, metaVars>>

ResolveConversation(c) ==
    /\ adminOps < MaxAdminOps
    /\ conversations' = resolveConversation(conversations, c)
    /\ adminOps' = adminOps + 1
    /\ UNCHANGED <<ycloudProcessedEvents, contacts, messages, clock, req, outbox, catalogVars, linkVars, metaVars>>

WebhookNext ==
    \/ \E d \in Deliveries :
         \/ HttpReceive(d)
         \/ HttpDedupe(d)
         \/ HttpMarkOutbound(d)
         \/ PimGetContact(d)
         \/ PimGetConversation(d)
         \/ PimInsertUserMessage(d)
         \/ PimGetById(d)
         \/ PimSingleFinca(d)
         \/ PimCatalog(d)
         \/ PimGenerate(d)
         \/ PimInsertAssistantMessage(d)
         \/ PimSend(d)
         \/ PimUpdateLastMessageAt(d)
    \/ \E c \in DOMAIN conversations : EscalateToHuman(c)
    \/ \E c \in DOMAIN conversations : SetToAiPublic(c)
    \/ \E c \in DOMAIN conversations : ResolveConversation(c)

Spec == Init /\ [][WebhookNext]_vars

\* ------------------------------------------------- convex/whatsappCatalogs.ts
\* Text is a sequence of characters.  toLowerCase maps the capitals to their small
\* letters and leaves every other character as it is.
Lower(ch) ==
    CASE ch = "B" -> "b"
      [] ch = "G" -> "g"
      [] ch = "I" -> "i"
      [] ch = "T" -> "t"
      [] OTHER -> ch

toLowerCase(str) == [i \in 1..Len(str) |-> Lower(str[i])]

RECURSIVE trimStart(_), trimEnd(_)
trimStart(str) ==
    IF str # <<>> /\ Head(str) = " " THEN trimStart(Tail(str)) ELSE str

trimEnd(str) ==
    IF str # <<>> /\ str[Len(str)] = " "
      THEN trimEnd(SubSeq(str, 1, Len(str) - 1)) ELSE str

trim(str) == trimEnd(trimStart(str))

\* String.prototype.includes
includes(str, part) ==
    \E i \in 0..(Len(str) - Len(part)) : SubSeq(str, i + 1, i + Len(part)) = part

KwTolima == <<"t", "o", "l", "i", "m", "a">>
KwBogota == <<"B", "o", "g", "o", "t", "a">>
Keywords == {<<>>, KwTolima, KwBogota}

LocIbague == <<"I", "b", "a", "g", "u", "e'", ",", " ", "T", "o", "l", "i", "m", "a">>
LocGirardot == <<"G", "i", "r", "a", "r", "d", "o", "t">>
LocBoth == <<" ", "b", "o", "g", "o", "t", "a", " ", "t", "o", "l", "i", "m", "a">>
LocBlank == <<" ">>
Locations == {LocIbague, LocGirardot, LocBoth, LocBlank}

Orders == {0, 1}

\* a.order ?? 999
OrderKey(c) == IF c.hasOrder THEN c.order ELSE 999

\* all.sort((a, b) => key(a) - key(b))[0]: the sort is stable, so among the rows
\* with the least key the one that comes first in the table
FirstByOrder(cats) ==
    IF cats = <<>> THEN NoId
    ELSE LET i == CHOOSE i \in DOMAIN cats :
                    /\ \A j \in DOMAIN cats : OrderKey(cats[i]) <= OrderKey(cats[j])
                    /\ \A j \in 1..(i - 1) : OrderKey(cats[j]) # OrderKey(cats[i])
         IN cats[i].id

\* Array.prototype.find / first(): of the rows at the indices S, the one that comes
\* first in table (creation) order
FirstIn(cats, S) ==
    IF S = {} THEN NoId ELSE cats[CHOOSE i \in S : \A j \in S : i <= j].id

\* getDefault without the lookup of the isDefault flag
getDefault_IgnoreFlag(cats) == FirstByOrder(cats)

getDefault(cats) ==
    LET byDefault == FirstIn(cats, {i \in DOMAIN cats : cats[i].isDefault})
    IN IF byDefault # NoId THEN byDefault ELSE FirstByOrder(cats)

getByLocationKeyword(cats, location) ==
    LET locLower == toLowerCase(trim(location))
        found == {i \in DOMAIN cats :
                    /\ cats[i].locationKeyword # <<>>
                    /\ includes(locLower, toLowerCase(cats[i].locationKeyword))}
    IN IF locLower = <<>> THEN NoId ELSE FirstIn(cats, found)

CatalogById(cats, id) == cats[CHOOSE i \in DOMAIN cats : cats[i].id = id]

CatalogIds(cats) == {cats[i].id : i \in DOMAIN cats}

NextCatalogId(cats, ops) == ops + 1

\* --------------------------------------- propertyWhatsAppCatalog (links) and jobs
\* seedCatalogProductos' fixed ids
META_CATALOG_ID == "26198995209693859"
PROPERTY_ID == "js797fftx557dg5gb9yd9et8s581g9dy"
PRODUCT_RETAILER_ID == "quk9ne5y4o"

Properties == {PROPERTY_ID, "f2"}
ProductIds == {PRODUCT_RETAILER_ID, "r2"}
\* every _id of whatsappCatalogs there can be
CatalogIdArgs == 1..MaxCatalogOps

Entries == [catalogId : CatalogIdArgs, productRetailerId : ProductIds]
EntryLists == UNION {[1..n -> Entries] : n \in 0..MaxEntries}

\* ctx.db.get(catalogId): NoId stands for null
GetCatalog(cats, id) ==
    LET S == {i \in DOMAIN cats : cats[i].id = id}
    IN IF S = {} THEN NoId ELSE CHOOSE i \in S : TRUE

\* withIndex("by_property_and_catalog").eq(propertyId).eq(catalogId)
ByPropertyAndCatalog(rows, propertyId, catalogId) ==
    {i \in DOMAIN rows : rows[i].propertyId = propertyId /\ rows[i].catalogId = catalogId}

\* withIndex("by_property").eq(propertyId)
ByProperty(rows, propertyId) == {i \in DOMAIN rows : rows[i].propertyId = propertyId}

\* withIndex("by_catalog").eq(catalogId)
ByCatalog(rows, catalogId) == {i \in DOMAIN rows : rows[i].catalogId = catalogId}

\* ctx.db.delete of the rows at the indices S; the other rows keep their order
RECURSIVE DeleteRows(_, _)
DeleteRows(rows, S) ==
    IF rows = <<>> THEN <<>>
    ELSE LET n == Len(rows)
             rest == DeleteRows(SubSeq(rows, 1, n - 1), S \ {n})
         IN IF n \in S THEN rest ELSE Append(rest, rows[n])

\* the rows at the indices S, in table order
RECURSIVE RowsAt(_, _)
RowsAt(rows, S) ==
    IF S = {} THEN <<>>
    ELSE LET n == MaxOf(S) IN Append(RowsAt(rows, S \ {n}), rows[n])

Link(propertyId, catalogId, productRetailerId) ==
    [propertyId |-> propertyId, catalogId |-> catalogId,
     productRetailerId |-> productRetailerId]

\* scheduler.runAfter(0, internal.metaCatalog.syncProductToMetaCatalog, {...})
SyncJob(whatsappCatalogId, propertyId, method) ==
    [fn |-> "syncProductToMetaCatalog", whatsappCatalogId |-> whatsappCatalogId,
     propertyId |-> propertyId, method |-> method]

\* scheduler.runAfter(0, internal.metaCatalog.deleteFromMetaCatalogs, {items})
DeleteJob(items) == [fn |-> "deleteFromMetaCatalogs", items |-> items]

DeleteItem(whatsappCatalogId, retailer_id) ==
    [whatsappCatalogId |-> whatsappCatalogId, retailer_id |-> retailer_id]

\* what a mutation did: the table after it, the jobs it scheduled, the rows it
\* deleted; a mutation that throws is rolled back
Outcome(rows, jobs, deleted, threw) ==
    [links |-> rows, jobs |-> jobs, deleted |-> deleted, threw |-> threw]

Thrown(rows) == Outcome(rows, <<>>, <<>>, TRUE)

\* setPropertyInCatalog, the copy that syncs with Meta
setPropertyInCatalog(cats, rows, propertyId, catalogId, productRetailerId) ==
    LET c == GetCatalog(cats, catalogId)
        existing == ByPropertyAndCatalog(rows, propertyId, catalogId)
    IN IF c = NoId THEN Thrown(rows)
       \* unique() throws when more than one row matches
       ELSE IF Cardinality(existing) > 1 THEN Thrown(rows)
       ELSE IF existing # {}
         THEN LET i == CHOOSE i \in existing : TRUE
              IN Outcome([rows EXCEPT ![i].productRetailerId = productRetailerId],
                         <<SyncJob(cats[c].whatsappCatalogId, propertyId, "UPDATE")>>,
                         <<>>, FALSE)
       ELSE Outcome(Append(rows, Link(propertyId, catalogId, productRetailerId)),
                    <<SyncJob(cats[c].whatsappCatalogId, propertyId, "CREATE")>>,
                    <<>>, FALSE)

\* setPropertyInCatalog of convex/propertyWhatsAppCatalog.ts: no lookup of the
\* catalog, nothing scheduled
setPropertyInCatalogLocal(cats, rows, propertyId, catalogId, productRetailerId) ==
    LET existing == ByPropertyAndCatalog(rows, propertyId, catalogId)
    IN IF Cardinality(existing) > 1 THEN Thrown(rows)
       ELSE IF existing # {}
         THEN LET i == CHOOSE i \in existing : TRUE
              IN Outcome([rows EXCEPT ![i].productRetailerId = productRetailerId],
                         <<>>, <<>>, FALSE)
       ELSE Outcome(Append(rows, Link(propertyId, catalogId, productRetailerId)),
                    <<>>, <<>>, FALSE)

\* removePropertyFromCatalog, the copy that syncs with Meta
removePropertyFromCatalog(cats, rows, propertyId, catalogId) ==
    LET found == ByPropertyAndCatalog(rows, propertyId, catalogId)
    IN IF Cardinality(found) > 1 THEN Thrown(rows)
       ELSE IF found = {} THEN Outcome(rows, <<>>, <<>>, FALSE)
       ELSE LET i == CHOOSE i \in found : TRUE
                c == GetCatalog(cats, rows[i].catalogId)
            IN Outcome(DeleteRows(rows, {i}),
                       IF c = NoId THEN <<>>
                       ELSE <<DeleteJob(<<DeleteItem(cats[c].whatsappCatalogId,
                                                     rows[i].productRetailerId)>>)>>,
                       <<rows[i]>>, FALSE)

\* removePropertyFromCatalog of convex/propertyWhatsAppCatalog.ts
removePropertyFromCatalogLocal(cats, rows, propertyId, catalogId) ==
    LET found == ByPropertyAndCatalog(rows, propertyId, catalogId)
    IN IF Cardinality(found) > 1 THEN Thrown(rows)
       ELSE Outcome(DeleteRows(rows, found), <<>>, RowsAt(rows, found), FALSE)

\* the loop over args.entries: an entry whose catalog does not exist is skipped
RECURSIVE InsertEntries(_, _, _, _, _)
InsertEntries(cats, out, propertyId, entries, sync) ==
    IF entries = <<>> THEN out
    ELSE LET e == Head(entries)
             c == GetCatalog(cats, e.catalogId)
             next == IF c = NoId THEN out
                     ELSE [out EXCEPT
                             !.links = Append(@, Link(propertyId, e.catalogId,
                                                      e.productRetailerId)),
                             !.jobs = IF sync
                                        THEN Append(@, SyncJob(cats[c].whatsappCatalogId,
                                                               propertyId, "CREATE"))
                                        ELSE @]
         IN InsertEntries(cats, next, propertyId, Tail(entries), sync)

\* toDeleteFromMeta: one item per existing row whose catalog still exists
ToDeleteFromMeta(cats, existing) ==
    LET kept == SelectSeq(existing, LAMBDA r : GetCatalog(cats, r.catalogId) # NoId)
    IN [k \in 1..Len(kept) |->
          DeleteItem(cats[GetCatalog(cats, kept[k].catalogId)].whatsappCatalogId,
                     kept[k].productRetailerId)]

\* setPropertyCatalogs, the copy that syncs with Meta
setPropertyCatalogs(cats, rows, propertyId, entries) ==
    LET existing == ByProperty(rows, propertyId)
        toDeleteFromMeta == ToDeleteFromMeta(cats, RowsAt(rows, existing))
        cleared == Outcome(DeleteRows(rows, existing),
                           IF toDeleteFromMeta # <<>>
                             THEN <<DeleteJob(toDeleteFromMeta)>> ELSE <<>>,
                           RowsAt(rows, existing), FALSE)
    IN InsertEntries(cats, cleared, propertyId, entries, TRUE)

\* setPropertyCatalogs of convex/propertyWhatsAppCatalog.ts
setPropertyCatalogsLocal(cats, rows, propertyId, entries) ==
    LET existing == ByProperty(rows, propertyId)
        cleared == Outcome(DeleteRows(rows, existing), <<>>, RowsAt(rows, existing), FALSE)
    IN InsertEntries(cats, cleared, propertyId, entries, FALSE)

\* whatsappCatalogs.remove: the catalog's links go with it; nothing is scheduled
RemoveLinksOfCatalog(rows, catalogId) ==
    Outcome(DeleteRows(rows, ByCatalog(rows, catalogId)), <<>>,
            RowsAt(rows, ByCatalog(rows, catalogId)), FALSE)

\* getProductRetailerIdsForProperties over the rows of every catalog
getProductRetailerIdsForProperties_AnyCatalog(rows, catalogId, propertyIds) ==
    LET found == RowsAt(rows, {i \in DOMAIN rows : rows[i].propertyId \in propertyIds})
    IN [k \in 1..Len(found) |->
          [propertyId |-> found[k].propertyId,
           productRetailerId |-> found[k].productRetailerId]]

\* getProductRetailerIdsForProperties: the for loop over the catalog's rows
RECURSIVE getProductRetailerIdsForProperties(_, _, _)
getProductRetailerIdsForProperties(rows, catalogId, propertyIds) ==
    IF rows = <<>> THEN <<>>
    ELSE LET n == Len(rows)
             r == rows[n]
             result == getProductRetailerIdsForProperties(SubSeq(rows, 1, n - 1),
                                                          catalogId, propertyIds)
         IN IF r.catalogId = catalogId /\ r.propertyId \in propertyIds
              THEN Append(result, [propertyId |-> r.propertyId,
                                   productRetailerId |-> r.productRetailerId])
              ELSE result

\* create: isDefault ?? false; locationKeyword and order stay absent when not given.
\* Each catalog registered is a Meta catalog of its own.
CreateCatalog(kw, hasOrder, order, isDefault) ==
    /\ catalogOps < MaxCatalogOps
    /\ whatsappCatalogs' = Append(whatsappCatalogs,
         [id |-> NextCatalogId(whatsappCatalogs, catalogOps), isDefault |-> isDefault,
          locationKeyword |-> kw, hasOrder |-> hasOrder, order |-> order,
          whatsappCatalogId |-> ToString(NextCatalogId(whatsappCatalogs, catalogOps))])
    /\ catalogOps' = catalogOps + 1
    /\ UNCHANGED <<resolution, webhookVars, linkVars, metaVars>>

CatalogCreate ==
    \E kw \in Keywords, hasOrder \in BOOLEAN, order \in Orders, isDefault \in BOOLEAN :
        /\ hasOrder \/ order = 0
        /\ CreateCatalog(kw, hasOrder, order, isDefault)

\* create({name, whatsappCatalogId})
CatalogCreatePlain == CreateCatalog(<<>>, FALSE, 0, FALSE)

\* update: patches the fields that are given
CatalogUpdate ==
    /\ catalogOps < MaxCatalogOps
    /\ \E i \in DOMAIN whatsappCatalogs :
         \/ \E isDefault \in BOOLEAN :
              whatsappCatalogs' = [whatsappCatalogs EXCEPT ![i].isDefault = isDefault]
         \/ \E kw \in Keywords :
              whatsappCatalogs' = [whatsappCatalogs EXCEPT ![i].locationKeyword = kw]
         \/ \E order \in Orders :
              whatsappCatalogs' = [whatsappCatalogs EXCEPT ![i].hasOrder = TRUE,
                                                           ![i].order = order]
    /\ catalogOps' = catalogOps + 1
    /\ UNCHANGED <<resolution, webhookVars, linkVars, metaVars>>

\* the record of a mutation on the links: its arguments, the tables and the
\* number of scheduled jobs before it, the rows it deleted, whether it threw
LinkOpRecord(name, propertyId, catalogId, productRetailerId, entries, out) ==
    [name |-> name, propertyId |-> propertyId, catalogId |-> catalogId,
     productRetailerId |-> productRetailerId, entries |-> entries,
     links |-> propertyWhatsAppCatalog, catalogs |-> whatsappCatalogs,
     jobs |-> Len(scheduled), deleted |-> out.deleted, threw |-> out.threw]

\* remove: deletes the catalog's links, then the catalog
CatalogRemove ==
    /\ catalogOps < MaxCatalogOps
    /\ \E i \in DOMAIN whatsappCatalogs :
         LET out == RemoveLinksOfCatalog(propertyWhatsAppCatalog, whatsappCatalogs[i].id)
         IN /\ propertyWhatsAppCatalog' = out.links
            /\ scheduled' = scheduled \o out.jobs
            /\ linkOp' = LinkOpRecord("remove", "", whatsappCatalogs[i].id, "", <<>>, out)
            /\ whatsappCatalogs' = [j \in 1..(Len(whatsappCatalogs) - 1) |->
                                      IF j < i THEN whatsappCatalogs[j]
                                               ELSE whatsappCatalogs[j + 1]]
    /\ catalogOps' = catalogOps + 1
    /\ UNCHANGED <<resolution, webhookVars, linkOps, metaSync, lookup, metaVars>>

\* the _ids a caller can hold: of the catalogs stored and of those removed since
IssuedCatalogIds == 1..catalogOps

\* a mutation of propertyWhatsAppCatalog with outcome out
LinkMutation(name, propertyId, catalogId, productRetailerId, entries, out) ==
    /\ propertyWhatsAppCatalog' = out.links
    /\ scheduled' = scheduled \o out.jobs
    /\ linkOp' = LinkOpRecord(name, propertyId, catalogId, productRetailerId, entries, out)
    /\ linkOps' = linkOps + 1
    /\ UNCHANGED <<metaSync, lookup, catalogVars, webhookVars, metaVars>>

SetPropertyInCatalog ==
    /\ linkOps < MaxLinkOps
    /\ \E p \in Properties, c \in IssuedCatalogIds, r \in ProductIds :
         LinkMutation("setPropertyInCatalog", p, c, r, <<>>,
           IF metaSync
             THEN setPropertyInCatalog(whatsappCatalogs, propertyWhatsAppCatalog, p, c, r)
             ELSE setPropertyInCatalogLocal(whatsappCatalogs, propertyWhatsAppCatalog,
                                            p, c, r))

RemovePropertyFromCatalog ==
    /\ linkOps < MaxLinkOps
    /\ \E p \in Properties, c \in IssuedCatalogIds :
         LinkMutation("removePropertyFromCatalog", p, c, "", <<>>,
           IF metaSync
             THEN removePropertyFromCatalog(whatsappCatalogs, propertyWhatsAppCatalog, p, c)
             ELSE removePropertyFromCatalogLocal(whatsappCatalogs,
                                                 propertyWhatsAppCatalog, p, c))

SetPropertyCatalogs ==
    /\ linkOps < MaxLinkOps
    /\ \E p \in Properties, entries \in EntryLists :
         /\ \A k \in DOMAIN entries : entries[k].catalogId \in IssuedCatalogIds
         /\ LinkMutation("setPropertyCatalogs", p, NoId, "", entries,
           IF metaSync
             THEN setPropertyCatalogs(whatsappCatalogs, propertyWhatsAppCatalog, p, entries)
             ELSE setPropertyCatalogsLocal(whatsappCatalogs, propertyWhatsAppCatalog,
                                           p, entries))

\* seedCatalogProductos: the catalog with META_CATALOG_ID, created when missing,
\* and the link of PROPERTY_ID to it, created when missing
SeedCatalogProductos ==
    /\ linkOps < MaxLinkOps
    /\ LET found == {i \in DOMAIN whatsappCatalogs :
                       whatsappCatalogs[i].whatsappCatalogId = META_CATALOG_ID}
           fresh == NextCatalogId(whatsappCatalogs, catalogOps)
           cats == IF found # {} THEN whatsappCatalogs
                   ELSE Append(whatsappCatalogs,
                          [id |-> fresh, isDefault |-> TRUE, locationKeyword |-> <<>>,
                           hasOrder |-> TRUE, order |-> 0,
                           whatsappCatalogId |-> META_CATALOG_ID])
           catalog == cats[IF found # {} THEN CHOOSE i \in found : \A j \in found : i <= j
                                         ELSE Len(cats)]
           existing == ByPropertyAndCatalog(propertyWhatsAppCatalog, PROPERTY_ID, catalog.id)
           threw == Cardinality(existing) > 1
           out == IF threw THEN Thrown(propertyWhatsAppCatalog)
                  ELSE IF existing # {}
                    THEN Outcome(propertyWhatsAppCatalog, <<>>, <<>>, FALSE)
                  ELSE Outcome(Append(propertyWhatsAppCatalog,
                                      Link(PROPERTY_ID, catalog.id, PRODUCT_RETAILER_ID)),
                               <<>>, <<>>, FALSE)
       IN /\ found = {} => catalogOps < MaxCatalogOps
          /\ propertyWhatsAppCatalog' = out.links
          /\ linkOp' = LinkOpRecord("seedCatalogProductos", PROPERTY_ID, catalog.id,
                                    PRODUCT_RETAILER_ID, <<>>, out)
          /\ whatsappCatalogs' = IF threw THEN whatsappCatalogs ELSE cats
          /\ catalogOps' = IF threw \/ found # {} THEN catalogOps ELSE catalogOps + 1
    /\ linkOps' = linkOps + 1
    /\ UNCHANGED <<scheduled, metaSync, lookup, resolution, webhookVars, metaVars>>

\* ---------------- maybeSendCatalogForUserMessage: which catalog the list is sent from
\* first query: getByLocationKeyword
DispatchByKeyword ==
    /\ resolution.pc = "idle"
    /\ \E location \in Locations :
         LET found == getByLocationKeyword(whatsappCatalogs, location)
         IN resolution' = [pc |-> IF found # NoId THEN "done" ELSE "default",
                           location |-> location, byKeyword |-> found,
                           chosen |-> found, seen |-> whatsappCatalogs]
    /\ UNCHANGED <<whatsappCatalogs, catalogOps, webhookVars, linkVars, metaVars>>

\* second query, when the first found nothing: getDefault; with no catalog at all
\* the action returns before anything is sent
DispatchDefault ==
    /\ resolution.pc = "default"
    /\ LET found == getDefault(whatsappCatalogs)
       IN resolution' = [resolution EXCEPT !.pc = IF found # NoId THEN "done" ELSE "none",
                                           !.chosen = found,
                                           !.seen = whatsappCatalogs]
    /\ UNCHANGED <<whatsappCatalogs, catalogOps, webhookVars, linkVars, metaVars>>

CatalogNext ==
    \/ CatalogCreate
    \/ CatalogUpdate
    \/ CatalogRemove
    \/ DispatchByKeyword
    \/ DispatchDefault

SpecCatalog == Init /\ [][CatalogNext]_vars

\* -------- maybeSendCatalogForUserMessage: the product ids and the list that is sent
\* the available listings the search returned, never none at this point
FincaLists == (SUBSET Properties) \ {{}}

\* what a lookup of product ids was asked and what it returned; externalId is the
\* whatsappCatalogId of the catalog stored under catalogId when the lookup ran
LookupRecord(catalogId, entries) ==
    [catalogId |-> catalogId,
     externalId |-> IF GetCatalog(whatsappCatalogs, catalogId) = NoId THEN ""
                    ELSE CatalogById(whatsappCatalogs, catalogId).whatsappCatalogId,
     entries |-> entries]

\* a fallback that keeps the catalog resolved first
FallbackCatalog_KeepChosen(chosen, defaultCatalog) == chosen

\* chosenCatalog = defaultCatalog
FallbackCatalog(chosen, defaultCatalog) == defaultCatalog

\* getProductRetailerIdsForProperties in the resolved catalog
DispatchLookup ==
    /\ resolution.pc = "done"
    /\ dispatch.pc = "idle"
    /\ \E fincas \in FincaLists :
         LET chosen == CatalogById(resolution.seen, resolution.chosen)
             entries == getProductRetailerIdsForProperties(propertyWhatsAppCatalog,
                                                           chosen.id, fincas)
         IN dispatch' = [pc |-> IF entries = <<>> THEN "fallback" ELSE "send",
                         fincas |-> fincas, chosen |-> chosen.id,
                         catalogId |-> chosen.whatsappCatalogId,
                         entries |-> entries,
                         lookups |-> <<LookupRecord(chosen.id, entries)>>,
                         defaults |-> <<>>, sent |-> <<>>]
    /\ UNCHANGED <<metaCatalog, parseCall, payloadCall, syncRun, linkVars, catalogVars, webhookVars>>

\* no product id in the resolved catalog: getDefault, and the default catalog takes
\* the place of the resolved one when there is one and it is another catalog
DispatchFallbackDefault ==
    /\ dispatch.pc = "fallback"
    /\ LET defaultCatalog == getDefault(whatsappCatalogs)
       IN dispatch' =
            IF defaultCatalog # NoId /\ defaultCatalog # dispatch.chosen
              THEN LET c == FallbackCatalog(
                              CatalogById(resolution.seen, dispatch.chosen),
                              CatalogById(whatsappCatalogs, defaultCatalog))
                   IN [dispatch EXCEPT !.pc = "lookup", !.chosen = c.id,
                                       !.catalogId = c.whatsappCatalogId,
                                       !.defaults = <<defaultCatalog>>]
              ELSE [dispatch EXCEPT !.pc = "send", !.defaults = <<defaultCatalog>>]
    /\ UNCHANGED <<metaCatalog, parseCall, payloadCall, syncRun, linkVars, catalogVars, webhookVars>>

\* getProductRetailerIdsForProperties in the default catalog
DispatchFallbackLookup ==
    /\ dispatch.pc = "lookup"
    /\ LET entries == getProductRetailerIdsForProperties(propertyWhatsAppCatalog,
                                                         dispatch.chosen,
                                                         dispatch.fincas)
       IN dispatch' = [dispatch EXCEPT
                         !.pc = "send", !.entries = entries,
                         !.lookups = Append(@, LookupRecord(dispatch.chosen, entries))]
    /\ UNCHANGED <<metaCatalog, parseCall, payloadCall, syncRun, linkVars, catalogVars, webhookVars>>

\* productRetailerIds.length === 0 returns; else sendWhatsAppCatalogList is called
DispatchSend ==
    /\ dispatch.pc = "send"
    /\ dispatch' = [dispatch EXCEPT
         !.pc = "done",
         !.sent = IF dispatch.entries = <<>> THEN <<>>
                  ELSE <<[catalogId |-> dispatch.catalogId,
                          productRetailerIds |->
                             [k \in DOMAIN dispatch.entries |->
                                dispatch.entries[k].productRetailerId]]>>]
    /\ UNCHANGED <<metaCatalog, parseCall, payloadCall, syncRun, linkVars, catalogVars, webhookVars>>

DispatchNext ==
    \/ CatalogCreate
    \/ CatalogUpdate
    \/ SeedCatalogProductos
    \/ DispatchByKeyword
    \/ DispatchDefault
    \/ DispatchLookup
    \/ DispatchFallbackDefault
    \/ DispatchFallbackLookup
    \/ DispatchSend

SpecDispatch == Init /\ [][DispatchNext]_vars

\* ------------------------------- the scheduled jobs of a link, run against Meta
\* a product of a Meta catalog: items_batch keys it by retailer_id
MetaProduct(whatsappCatalogId, retailer_id) ==
    [whatsappCatalogId |-> whatsappCatalogId, retailer_id |-> retailer_id]

\* syncProductToMetaCatalog: requests[0] of its items_batch body
SyncRequest(job) == [method |-> job.method, retailer_id |-> job.propertyId]

\* items_batch accepted: CREATE and UPDATE store the product under retailer_id,
\* DELETE removes the product stored under retailer_id
ItemsBatch(products, whatsappCatalogId, request) ==
    IF request.method = "DELETE"
      THEN products \ {MetaProduct(whatsappCatalogId, request.retailer_id)}
      ELSE products \cup {MetaProduct(whatsappCatalogId, request.retailer_id)}

\* deleteFromMetaCatalogs: one DELETE per item
RECURSIVE DeleteItems(_, _)
DeleteItems(products, items) ==
    IF items = <<>> THEN products
    ELSE DeleteItems(ItemsBatch(products, items[1].whatsappCatalogId,
                                [method |-> "DELETE",
                                 retailer_id |-> items[1].retailer_id]),
                     Tail(items))

\* the scheduler runs the next job, the token is set, the listing exists and Meta
\* accepts every request
RunScheduledJob ==
    /\ metaCatalog.ran < Len(scheduled)
    /\ LET job == scheduled[metaCatalog.ran + 1]
       IN metaCatalog' =
            [ran |-> metaCatalog.ran + 1,
             products |->
               IF job.fn = "syncProductToMetaCatalog"
                 THEN ItemsBatch(metaCatalog.products, job.whatsappCatalogId,
                                 SyncRequest(job))
                 ELSE DeleteItems(metaCatalog.products, job.items)]
    /\ UNCHANGED <<dispatch, parseCall, payloadCall, syncRun, linkVars, catalogVars,
                   webhookVars>>

RemoteNext ==
    \/ CatalogCreatePlain
    \/ SetPropertyInCatalog
    \/ RemovePropertyFromCatalog
    \/ RunScheduledJob

SpecRemote == Init /\ [][RemoteNext]_vars

\* ============================================ the message parsers of ycloud.ts
\* the words of the patterns and of the messages
VER == <<"v", "e", "r">>
MOSTRAR == <<"m", "o", "s", "t", "r", "a", "r">>
QUIERO == <<"q", "u", "i", "e", "r", "o">>
LA == <<"l", "a">>
EL == <<"e", "l">>
DE == <<"d", "e">>
UN == <<"u", "n">>
UNA == <<"u", "n", "a">>
FINCA == <<"f", "i", "n", "c", "a">>
DEL == <<"d", "e", "l">>
PARA == <<"p", "a", "r", "a">>
EN == <<"e", "n">>
AL == <<"a", "l">>
TOLIMA == <<"T", "o", "l", "i", "m", "a">>
RESTREPO == <<"r", "e", "s", "t", "r", "e", "p", "o">>
VILLA_DE_LEYVA == <<"v", "i", "l", "l", "a", " ", "d", "e", " ", "l", "e", "y", "v", "a">>
EL_PENOL == <<"e", "l", " ", " ", "p", "e", "ñ", "o", "l">>
PARA_10_PERSONAS == <<" ", "p", "a", "r", "a", " ", "1", "0", " ", "p", "e", "r", "s", "o", "n", "a", "s">>
VILLA_GREEN == <<"v", "i", "l", "l", "a", " ", "g", "r", "e", "e", "n">>
TOLIMA_7 == <<"T", "o", "l", "i", "m", "a", " ", "#", "7">>
DigitChars == <<"0", "1", "2", "3", "4", "5", "6", "7", "8", "9">>

\* A message is a sequence of characters, as the texts of the catalogs are.
Digits == {"0", "1", "2", "3", "4", "5", "6", "7", "8", "9"}

\* [a-záéíóúñ], matched without regard to case
Letters ==
    {"a", "b", "c", "d", "e", "f", "g", "h", "i", "j", "k", "l", "m", "n", "o", "p",
     "q", "r", "s", "t", "u", "v", "w", "x", "y", "z", "á", "é", "í", "ó", "ú", "ñ"}

\* \s, of which the messages drawn here hold the space only
WhiteSpace == {" "}

\* [a-záéíóúñ\s]
LocationChars == Letters \cup WhiteSpace

\* [a-záéíóúñ0-9\s#]
TermChars == Letters \cup Digits \cup WhiteSpace \cup {"#"}

\* the character at position i, "" past the end
At(str, i) == IF i \in 1..Len(str) THEN str[i] ELSE ""

\* the literal word stands at position i
StartsAt(str, i, word) ==
    /\ i >= 1
    /\ i + Len(word) - 1 <= Len(str)
    /\ SubSeq(str, i, i + Len(word) - 1) = word

\* how many characters of class, from position i on, follow one another
RECURSIVE ClassRun(_, _, _)
ClassRun(str, i, class) ==
    IF At(str, i) \in class THEN 1 + ClassRun(str, i + 1, class) ELSE 0

\* <<a, a - 1, ..., b>>
Descending(a, b) == [k \in 1..(a - b + 1) |-> a - k + 1]

\* \s+ at position p: the positions it can end before, the longest run first
AfterSpaces(str, p) == Descending(p + ClassRun(str, p, WhiteSpace), p + 1)

\* \s+ at each of the positions ps, in their order
RECURSIVE SpacesThen(_, _)
SpacesThen(str, ps) ==
    IF ps = <<>> THEN <<>>
    ELSE AfterSpaces(str, Head(ps)) \o SpacesThen(str, Tail(ps))

\* (?:word\s+)? at each of the positions ps: the word taken first, then skipped
RECURSIVE OptionalWord(_, _, _)
OptionalWord(str, ps, word) ==
    IF ps = <<>> THEN <<>>
    ELSE (IF StartsAt(str, Head(ps), word)
            THEN AfterSpaces(str, Head(ps) + Len(word)) ELSE <<>>)
         \o <<Head(ps)>> \o OptionalWord(str, Tail(ps), word)

\* a literal word at each of the positions ps
RECURSIVE Word(_, _, _)
Word(str, ps, word) ==
    IF ps = <<>> THEN <<>>
    ELSE (IF StartsAt(str, Head(ps), word) THEN <<Head(ps) + Len(word)>> ELSE <<>>)
         \o Word(str, Tail(ps), word)

\* (?:ver|mostrar) at each of the positions ps
Verb(str, ps) == Word(str, ps, VER) \o Word(str, ps, MOSTRAR)

\* the positions where the capture of the k-th pattern of parseSingleFincaRequest
\* can begin when the match begins at s, in the order the matcher tries them
CaptureStarts(k, lower, s) ==
    LET starts ==
          IF k = 1
            THEN OptionalWord(lower,
                   OptionalWord(lower,
                     OptionalWord(lower,
                       SpacesThen(lower,
                         Verb(lower, OptionalWord(lower, <<s>>, QUIERO))),
                       LA),
                     FINCA),
                   DE)
          ELSE IF k = 2
            THEN OptionalWord(lower,
                   SpacesThen(lower,
                     Word(lower, OptionalWord(lower, <<s>>, LA), FINCA)),
                   DE)
          ELSE SpacesThen(lower, Verb(lower, <<s>>))
    IN SelectSeq(starts, LAMBDA p : At(lower, p) \in TermChars)

\* msg.match(patterns[k]): whether it matches and m[1], the capture of the
\* leftmost match, which runs as far as the characters of the class go
PatternMatch(k, msg) ==
    LET lower == toLowerCase(msg)
        S == {s \in 1..Len(msg) : CaptureStarts(k, lower, s) # <<>>}
    IN IF S = {} THEN [matched |-> FALSE, capture |-> <<>>]
       ELSE LET s == CHOOSE s \in S : \A t \in S : s <= t
                c == Head(CaptureStarts(k, lower, s))
            IN [matched |-> TRUE,
                capture |-> SubSeq(msg, c, c + ClassRun(lower, c, TermChars) - 1)]

\* term.length >= 2 && !/^(la|el|de|una?)$/i.test(term)
Accepted(term) == Len(term) >= 2 /\ toLowerCase(term) \notin {LA, EL, DE, UN, UNA}

\* the result null
NoTerm == [found |-> FALSE, term |-> <<>>]

\* the loop over the patterns from the k-th on
RECURSIVE TermFrom(_, _)
TermFrom(k, msg) ==
    IF k > 3 THEN NoTerm
    ELSE LET m == PatternMatch(k, msg)
             term == trim(m.capture)
         IN IF m.matched /\ Accepted(term) THEN [found |-> TRUE, term |-> term]
            ELSE TermFrom(k + 1, msg)

parseSingleFincaRequest(userMessage) ==
    LET msg == trim(userMessage)
    IN IF Len(msg) < 4 THEN NoTerm ELSE TermFrom(1, msg)

\* .replace(/\s+/g, " ")
RECURSIVE CollapseSpaces(_)
CollapseSpaces(str) ==
    IF str = <<>> THEN <<>>
    ELSE IF Head(str) \in WhiteSpace
      THEN <<" ">> \o CollapseSpaces(SubSeq(str, 1 + ClassRun(str, 1, WhiteSpace),
                                            Len(str)))
    ELSE <<Head(str)>> \o CollapseSpaces(Tail(str))

\* (?:\s+del\s|\s+para\s|\s+\d|$) at position j
LocationEnds(msg, j) ==
    \/ j = Len(msg) + 1
    \/ LET x == j + ClassRun(msg, j, WhiteSpace)
       IN /\ x > j
          /\ \/ StartsAt(msg, x, DEL) /\ At(msg, x + 3) \in WhiteSpace
             \/ StartsAt(msg, x, PARA) /\ At(msg, x + 4) \in WhiteSpace
             \/ At(msg, x) \in Digits

\* the capture [a-záéíóúñ\s]+? that begins at a: the shortest that the rest of the
\* pattern can follow; <<>> when there is none
LazyCapture(msg, a) ==
    LET B == {b \in a..(a + ClassRun(msg, a, LocationChars) - 1) :
                LocationEnds(msg, b + 1)}
    IN IF B = {} THEN <<>>
       ELSE SubSeq(msg, a, CHOOSE b \in B : \A c \in B : b <= c)

\* the captures of the location pattern for a match that begins at i, in the order
\* the matcher tries them
LocationCaptures(msg, i) ==
    LET after == Word(msg, <<i>>, PARA) \o Word(msg, <<i>>, EN)
        starts == SpacesThen(msg, after)
    IN SelectSeq([k \in DOMAIN starts |-> LazyCapture(msg, starts[k])],
                 LAMBDA c : c # <<>>)

\* msg.match(/(?:para|en)\s+([a-záéíóúñ\s]+?)(?:\s+del\s|\s+para\s|\s+\d|$)/i) and
\* location: m[1] trimmed with its whitespace collapsed, or ""
LocationOf(msg) ==
    LET S == {i \in 1..Len(msg) : LocationCaptures(msg, i) # <<>>}
    IN IF S = {} THEN <<>>
       ELSE CollapseSpaces(trim(Head(LocationCaptures(msg,
                                       CHOOSE i \in S : \A j \in S : i <= j))))

\* parseInt(digits, 10) of one or two digits
DigitValue(ch) == CHOOSE n \in 0..9 : DigitChars[n + 1] = ch

parseInt(digits) ==
    IF Len(digits) = 1 THEN DigitValue(digits[1])
    ELSE 10 * DigitValue(digits[1]) + DigitValue(digits[2])

\* (\d{1,2})\s*al\s*(\d{1,2}) at position q with n digits in the first number
NumbersWith(msg, q, n) ==
    LET al == q + n + ClassRun(msg, q + n, WhiteSpace)
        y == al + 2 + ClassRun(msg, al + 2, WhiteSpace)
        ok == /\ ClassRun(msg, q, Digits) >= n
              /\ StartsAt(msg, al, AL)
              /\ At(msg, y) \in Digits
    IN [matched |-> ok,
        first |-> IF ok THEN SubSeq(msg, q, q + n - 1) ELSE <<>>,
        second |-> IF ok THEN SubSeq(msg, y, IF At(msg, y + 1) \in Digits
                                               THEN y + 1 ELSE y)
                         ELSE <<>>]

\* the same with two digits tried before one
NumbersAt(msg, q) ==
    IF NumbersWith(msg, q, 2).matched THEN NumbersWith(msg, q, 2)
    ELSE NumbersWith(msg, q, 1)

\* /(?:del\s+)?(\d{1,2})\s*al\s*(\d{1,2})/ for a match that begins at s
DatesAt(msg, s) ==
    IF StartsAt(msg, s, DEL) /\ ClassRun(msg, s + 3, WhiteSpace) >= 1
      THEN NumbersAt(msg, s + 3 + ClassRun(msg, s + 3, WhiteSpace))
      ELSE NumbersAt(msg, s)

\* msg.match of the day pair: the leftmost match
DatesOf(msg) ==
    LET S == {s \in 1..Len(msg) : DatesAt(msg, s).matched}
    IN IF S = {} THEN [matched |-> FALSE, first |-> <<>>, second |-> <<>>]
       ELSE DatesAt(msg, CHOOSE s \in S : \A t \in S : s <= t)

\* a time is counted in whole days since 1970-01-01 00:00 of the deployment's
\* clock: getTime() is MS_PER_DAY times this number
IsLeap(year) == year % 4 = 0 /\ (year % 100 # 0 \/ year % 400 = 0)

DaysInMonth(year, month) ==
    IF month = 1 THEN (IF IsLeap(year) THEN 29 ELSE 28)
    ELSE IF month \in {3, 5, 8, 10} THEN 30 ELSE 31

RECURSIVE DaysBeforeMonth(_, _)
DaysBeforeMonth(year, month) ==
    IF month = 0 THEN 0
    ELSE DaysBeforeMonth(year, month - 1) + DaysInMonth(year, month - 1)

RECURSIVE DaysBeforeYear(_)
DaysBeforeYear(year) ==
    IF year = 1970 THEN 0
    ELSE DaysBeforeYear(year - 1) + (IF IsLeap(year - 1) THEN 366 ELSE 365)

\* new Date(year, month, day).getTime(): month from 0, a day past the month's end
\* runs on into the months after
DateTime(year, month, day) ==
    DaysBeforeYear(year) + DaysBeforeMonth(year, month) + day - 1

\* an exit at the second day itself
ExitDay_SameDay(d2) == d2

\* the day handed to Date for fechaSalida
ExitDay(d2) == d2 + 1

\* the result null
NoDates == [found |-> FALSE, location |-> <<>>, fechaEntrada |-> 0, fechaSalida |-> 0]

parseLocationAndDates(userMessage, now) ==
    LET msg == toLowerCase(trim(userMessage))
        location == LocationOf(msg)
        dateMatch == DatesOf(msg)
        d1 == parseInt(dateMatch.first)
        d2 == parseInt(dateMatch.second)
    IN IF location = <<>> \/ ~dateMatch.matched THEN NoDates
       ELSE IF d1 < 1 \/ d1 > 31 \/ d2 < 1 \/ d2 > 31 THEN NoDates
       ELSE [found |-> TRUE, location |-> location,
             fechaEntrada |-> DateTime(now.year, now.month, d1),
             fechaSalida |-> DateTime(now.year, now.month, ExitDay(d2))]

\* ------------------------------------------------------ the messages drawn
\* the decimal digits of a day number below 100
Numeral(n) ==
    IF n < 10 THEN <<DigitChars[n + 1]>>
    ELSE <<DigitChars[(n \div 10) + 1], DigitChars[(n % 10) + 1]>>

\* the day numbers written in the messages
DayNumbers == {0, 1, 3, 20, 21, 25, 31, 32}

\* the places written in the messages
Places == {RESTREPO, VILLA_DE_LEYVA, EL_PENOL, TOLIMA}

\* a message that asks for a place and a day pair, one part or the other left out
\* in two of the forms
DateMessage(form, place, d1, d2) ==
    CASE form = "para" ->
           PARA \o <<" ">> \o place \o <<" ">> \o DEL \o <<" ">> \o Numeral(d1)
             \o <<" ">> \o AL \o <<" ">> \o Numeral(d2) \o PARA_10_PERSONAS
      [] form = "en" ->
           <<" ">> \o EN \o <<" ">> \o place \o <<" ">> \o Numeral(d1)
             \o AL \o Numeral(d2)
      [] form = "nowhere" ->
           DEL \o <<" ">> \o Numeral(d1) \o <<" ">> \o AL \o <<" ">> \o Numeral(d2)
      [] OTHER -> PARA \o <<" ">> \o place

DateForms == {"para", "en", "nowhere", "undated"}

DateInputs ==
    {[form |-> f, place |-> p, d1 |-> a, d2 |-> b] :
        f \in {"para", "en"}, p \in Places, a \in DayNumbers, b \in DayNumbers}
    \cup {[form |-> "nowhere", place |-> <<>>, d1 |-> a, d2 |-> b] :
            a \in DayNumbers, b \in DayNumbers}
    \cup {[form |-> "undated", place |-> p, d1 |-> 0, d2 |-> 0] : p \in Places}

\* a message that asks for one listing, built of the words the patterns look for
FincaInputs ==
    {[form |-> "finca", place |-> a \o b \o c \o d \o e \o f, d1 |-> 0, d2 |-> 0] :
        a \in {<<>>, QUIERO \o <<" ">>},
        b \in {<<>>, VER \o <<" ">>, MOSTRAR \o <<" ", " ">>},
        c \in {<<>>, LA \o <<" ">>, EL \o <<",", " ">>},
        d \in {<<>>, FINCA \o <<" ">>},
        e \in {<<>>, DE \o <<" ">>},
        f \in {<<>>, <<"x">>, VILLA_GREEN, LA, UNA, TOLIMA_7}}

MessageOf(input) ==
    IF input.form = "finca" THEN input.place
    ELSE DateMessage(input.form, input.place, input.d1, input.d2)

\* the clock's year and month (from 0) at the call
Nows ==
    {[year |-> 2026, month |-> 10], [year |-> 2026, month |-> 11],
     [year |-> 2024, month |-> 1], [year |-> 2025, month |-> 1]}

\* a message has come in with the clock at now
ParseInit ==
    \E input \in DateInputs \cup FincaInputs, now \in Nows :
       parseCall = [pc |-> "got", input |-> input, userMessage |-> MessageOf(input),
                    now |-> now]

ParseLocationAndDates ==
    /\ parseCall.pc = "got"
    /\ parseCall' = [pc |-> "dates", input |-> parseCall.input,
                     userMessage |-> parseCall.userMessage, now |-> parseCall.now,
                     result |-> parseLocationAndDates(parseCall.userMessage,
                                                      parseCall.now)]
    /\ UNCHANGED <<dispatch, metaCatalog, payloadCall, syncRun, linkVars, catalogVars,
                   webhookVars>>

ParseSingleFincaRequest ==
    /\ parseCall.pc = "got"
    /\ parseCall' = [pc |-> "term", input |-> parseCall.input,
                     userMessage |-> parseCall.userMessage, now |-> parseCall.now,
                     result |-> parseSingleFincaRequest(parseCall.userMessage)]
    /\ UNCHANGED <<dispatch, metaCatalog, payloadCall, syncRun, linkVars, catalogVars,
                   webhookVars>>

InitParse ==
    /\ WebhookInit /\ CatalogInit /\ LinkInit(TRUE)
    /\ payloadCall = IdlePayloadCall
    /\ syncRun = IdleSyncRun
    /\ dispatch = IdleDispatch
    /\ metaCatalog = EmptyMetaCatalog
    /\ ParseInit

ParseNext ==
    \/ ParseLocationAndDates
    \/ ParseSingleFincaRequest

SpecParse == InitParse /\ [][ParseNext]_vars

\* ------------------------------------------------ the links and their catalogs
\* a caller runs the query getProductRetailerIdsForProperties
GetProductRetailerIds ==
    /\ lookup.pc = "idle"
    /\ \E c \in CatalogIdArgs, ps \in SUBSET Properties :
         lookup' = [pc |-> "done", catalogId |-> c, propertyIds |-> ps,
                    rows |-> propertyWhatsAppCatalog,
                    result |-> getProductRetailerIdsForProperties(
                                 propertyWhatsAppCatalog, c, ps)]
    /\ UNCHANGED <<propertyWhatsAppCatalog, scheduled, linkOp, linkOps, metaSync,
                   catalogVars, webhookVars, metaVars>>

InitLinks ==
    WebhookInit /\ CatalogInit /\ MetaInit /\ \E sync \in BOOLEAN : LinkInit(sync)

LinkNext ==
    \/ CatalogCreatePlain
    \/ CatalogRemove
    \/ SetPropertyInCatalog
    \/ RemovePropertyFromCatalog
    \/ SetPropertyCatalogs
    \/ SeedCatalogProductos
    \/ GetProductRetailerIds

SpecLinks == InitLinks /\ [][LinkNext]_vars

\* ------------------------------------------------------ metaCatalog: the payload
GRAPH_API_BASE == "https://graph.facebook.com/v19.0"
\* CATALOG_PRODUCT_BASE_URL and SITE_URL not set
PRODUCT_BASE_URL == "https://fincasya.cloud"
FincaName == <<"F", "i", "n", "c", "a">>

Prices == {0 - 1, 0, 400000, 500000, 600000}
Titles == {<<>>, <<" ">>, <<"V", "i", "l", "l", "a", " ">>}
ImageLists == {<<>>, <<"">>, <<"", "https://img/1.jpg">>}
Videos == {"", "https://vid/1.mp4"}

\* PropForCatalog: an optional field is a flag and a value
PropsForCatalog ==
    {prop \in [hasTitle : BOOLEAN, title : Titles,
               hasDescription : BOOLEAN, description : {<<>>, <<"d">>},
               hasImages : BOOLEAN, images : ImageLists,
               video : Videos,
               hasPriceBase : BOOLEAN, priceBase : Prices,
               hasPriceBaja : BOOLEAN, priceBaja : Prices] :
        /\ ~prop.hasTitle => prop.title = <<>>
        /\ ~prop.hasDescription => prop.description = <<>>
        /\ ~prop.hasImages => prop.images = <<>>
        /\ ~prop.hasPriceBase => prop.priceBase = 0
        /\ ~prop.hasPriceBaja => prop.priceBaja = 0}

\* `${n} COP`
Cop(n) == ToString(n) \o " COP"

\* str.slice(0, n)
slice(str, n) == SubSeq(str, 1, IF Len(str) < n THEN Len(str) ELSE n)

\* the test with a priceBaja equal to the price taken for a discount
IsRealDiscount_NotStrict(prop, price) ==
    prop.hasPriceBaja /\ prop.priceBaja > 0 /\ prop.priceBaja <= price

\* "solo enviar sale_price si es un descuento real": priceBaja != null, > 0, < price
IsRealDiscount(prop, price) ==
    prop.hasPriceBaja /\ prop.priceBaja > 0 /\ prop.priceBaja < price

\* buildMetaPayload; a payload field that may be absent is a flag and a value
buildMetaPayload(prop, propertyId) ==
    LET retailerId == propertyId
        price == IF prop.hasPriceBase THEN prop.priceBase ELSE 0
        productUrl == PRODUCT_BASE_URL \o "/fincas/" \o retailerId
        given == IF prop.hasTitle /\ prop.title # <<>> THEN prop.title ELSE FincaName
        productName == IF trim(given) # <<>> THEN trim(given) ELSE FincaName
        images == SelectSeq(prop.images, LAMBDA url : url # "")
        discount == IsRealDiscount(prop, price)
    IN [id |-> retailerId,
        name |-> productName,
        title |-> productName,
        description |-> slice(prop.description, 5000),
        price |-> Cop(price),
        availability |-> "in stock",
        brand |-> "Finca",
        condition |-> "new",
        url |-> productUrl,
        link |-> productUrl,
        hasImage |-> Len(images) > 0,
        image |-> [k \in 1..Len(images) |-> [url |-> images[k], tag |-> <<>>]],
        hasVideo |-> prop.video # "",
        video |-> IF prop.video # "" THEN <<[url |-> prop.video, tag |-> <<>>]>>
                  ELSE <<>>,
        hasSalePrice |-> discount,
        sale_price |-> IF discount THEN Cop(prop.priceBaja) ELSE ""]

\* fincas.getById returned prop
PayloadInit ==
    \E prop \in PropsForCatalog :
       payloadCall = [pc |-> "got", prop |-> prop, propertyId |-> PROPERTY_ID]

\* getPropertyPayload: the listing was found, its payload is built
GetPropertyPayload ==
    /\ payloadCall.pc = "got"
    /\ payloadCall' = [pc |-> "built", prop |-> payloadCall.prop,
                       propertyId |-> payloadCall.propertyId,
                       payload |-> buildMetaPayload(payloadCall.prop,
                                                    payloadCall.propertyId)]
    /\ UNCHANGED <<syncRun, flowVars, linkVars, catalogVars, webhookVars>>

InitPayload ==
    /\ WebhookInit /\ CatalogInit /\ LinkInit(TRUE)
    /\ syncRun = IdleSyncRun
    /\ FlowInit
    /\ PayloadInit

PayloadNext == GetPropertyPayload

SpecPayload == InitPayload /\ [][PayloadNext]_vars

\* ------------------------------------------------- metaCatalog: the bulk resyncs
\* what the Graph API answers to a POST items_batch: res.ok, !res.ok, or res.ok
\* with errors in validation_status
Responses == {"ok", "error", "rejected"}

\* listByProperty: the listing's rows with the Meta id of their catalog, "" for null
listByProperty(cats, rows, propertyId) ==
    LET found == RowsAt(rows, ByProperty(rows, propertyId))
    IN [k \in 1..Len(found) |->
          [productRetailerId |-> found[k].productRetailerId,
           whatsappCatalogId |->
              IF GetCatalog(cats, found[k].catalogId) = NoId THEN ""
              ELSE cats[GetCatalog(cats, found[k].catalogId)].whatsappCatalogId]]

\* the rows with a whatsappCatalogId
WithCatalogId(links) == SelectSeq(links, LAMBDA l : l.whatsappCatalogId # "")

\* a run of a resync action: the catalogs to push to, the requests sent so far with
\* their responses, and how the action ended
SyncRun(fn, propertyId, toSync, pc, hasResult) ==
    [fn |-> fn, propertyId |-> propertyId, toSync |-> toSync, requests |-> <<>>,
     synced |-> 0, pc |-> pc, hasResult |-> hasResult]

\* body of fetch(`${GRAPH_API_BASE}/${wid}/items_batch`, ...)
BatchRequest(whatsappCatalogId, retailer_id, response) ==
    [url |-> GRAPH_API_BASE \o "/" \o whatsappCatalogId \o "/items_batch",
     method |-> "UPDATE", retailer_id |-> retailer_id, response |-> response]

\* syncPropertyToCatalogs up to the loop: token, links, listing
SyncPropertyToCatalogsStart ==
    /\ syncRun.pc = "idle"
    /\ \E propertyId \in Properties, token \in BOOLEAN, found \in BOOLEAN :
         LET links == listByProperty(whatsappCatalogs, propertyWhatsAppCatalog,
                                     propertyId)
             toSync == WithCatalogId(links)
         IN syncRun' =
              IF ~token
                THEN SyncRun("syncPropertyToCatalogs", propertyId, <<>>, "threw", FALSE)
              ELSE IF toSync = <<>>
                THEN SyncRun("syncPropertyToCatalogs", propertyId, toSync, "returned", TRUE)
              ELSE IF ~found
                THEN SyncRun("syncPropertyToCatalogs", propertyId, toSync, "threw", FALSE)
              ELSE SyncRun("syncPropertyToCatalogs", propertyId, toSync, "loop", FALSE)
    /\ UNCHANGED <<payloadCall, flowVars, linkVars, catalogVars, webhookVars>>

\* one turn of the loop of syncPropertyToCatalogs: a response that is not ok, or
\* that carries validation errors, throws
SyncPropertyToCatalogsFetch ==
    /\ syncRun.pc = "loop"
    /\ syncRun.fn = "syncPropertyToCatalogs"
    /\ \E response \in Responses :
         LET i == Len(syncRun.requests) + 1
             sent == Append(syncRun.requests,
                            BatchRequest(syncRun.toSync[i].whatsappCatalogId,
                                         syncRun.propertyId, response))
         IN syncRun' =
              IF response # "ok"
                THEN [syncRun EXCEPT !.requests = sent, !.pc = "threw"]
              ELSE [syncRun EXCEPT !.requests = sent,
                                   !.synced = @ + 1,
                                   !.pc = IF i = Len(syncRun.toSync) THEN "returned"
                                          ELSE "loop",
                                   !.hasResult = (i = Len(syncRun.toSync))]
    /\ UNCHANGED <<payloadCall, flowVars, linkVars, catalogVars, webhookVars>>

\* syncPropertyToAllCatalogs up to the loop: links, token, payload
SyncPropertyToAllCatalogsStart ==
    /\ syncRun.pc = "idle"
    /\ \E propertyId \in Properties, token \in BOOLEAN, found \in BOOLEAN :
         LET links == listByProperty(whatsappCatalogs, propertyWhatsAppCatalog,
                                     propertyId)
             \* a link without whatsappCatalogId is skipped by the loop
             toSync == WithCatalogId(links)
         IN syncRun' =
              IF ~token \/ ~found
                THEN SyncRun("syncPropertyToAllCatalogs", propertyId, <<>>,
                             "returned", FALSE)
              ELSE SyncRun("syncPropertyToAllCatalogs", propertyId, toSync,
                           IF toSync = <<>> THEN "returned" ELSE "loop", FALSE)
    /\ UNCHANGED <<payloadCall, flowVars, linkVars, catalogVars, webhookVars>>

\* one turn of the loop of syncPropertyToAllCatalogs: a response that is not ok is
\* logged; the action returns nothing
SyncPropertyToAllCatalogsFetch ==
    /\ syncRun.pc = "loop"
    /\ syncRun.fn = "syncPropertyToAllCatalogs"
    /\ \E response \in Responses :
         LET i == Len(syncRun.requests) + 1
         IN syncRun' =
              [syncRun EXCEPT
                 !.requests = Append(@, BatchRequest(syncRun.toSync[i].whatsappCatalogId,
                                                     syncRun.toSync[i].productRetailerId,
                                                     response)),
                 !.pc = IF i = Len(syncRun.toSync) THEN "returned" ELSE "loop"]
    /\ UNCHANGED <<payloadCall, flowVars, linkVars, catalogVars, webhookVars>>

SyncNext ==
    \/ CatalogCreatePlain
    \/ CatalogRemove
    \/ SetPropertyInCatalog
    \/ SyncPropertyToCatalogsStart
    \/ SyncPropertyToCatalogsFetch
    \/ SyncPropertyToAllCatalogsStart
    \/ SyncPropertyToAllCatalogsFetch

SpecSync == InitLinks /\ [][SyncNext]_vars

\* ======================================================================= claims
Sent(d) == {i \in DOMAIN outbox : outbox[i].by = d}

\* deliveries of event e that recordProcessedEvent let through / reported duplicate
Passed(e) ==
    {d \in Deliveries : req[d].eventId = e /\ req[d].kind = "inbound" /\ "dedupe" \in req[d].ran}

Skipped(e) == {d \in Deliveries : req[d].eventId = e /\ req[d].kind = "duplicate"}

ReplySteps == {"single", "multi", "generate", "insertAssistant", "send"}

\* C1: among the deliveries of inbound-message events with one event id that reach the
\* deduplication, in any interleaving, exactly one passes recordProcessedEvent as
\* non-duplicate and goes on to processInboundMessage; every other one is skipped:
\* it is acknowledged having touched no contact, conversation or message and having
\* sent nothing, so every stored row and every sent message belongs to a delivery
\* that passed.
C1_ExactlyOnePerEventId ==
    /\ \A e \in EventIds :
         /\ Cardinality(Passed(e)) <= 1
         /\ (Passed(e) \cup Skipped(e) # {}) => Cardinality(Passed(e)) = 1
         /\ (Passed(e) # {}) <=> (e \in ycloudProcessedEvents)
         /\ \A d \in Skipped(e) :
              /\ req[d].ran = {"dedupe"}
              /\ req[d].pc = "done" /\ req[d].response = 200
              /\ req[d].contactId = NoId /\ req[d].conversationId = NoId
              /\ Sent(d) = {}
    /\ Cardinality({i \in DOMAIN messages : messages[i].sender = "user"})
         = Cardinality({d \in Deliveries : "insertUser" \in req[d].ran})
    /\ Len(conversations) = Cardinality({d \in Deliveries : req[d].isNew})
    /\ {contacts[i].phone : i \in DOMAIN contacts}
         = {req[d].phone : d \in {x \in Deliveries : "getContact" \in req[x].ran}}
    /\ \A i \in DOMAIN outbox : outbox[i].by \in UNION {Passed(e) : e \in EventIds}

\* a duplicate was skipped while the delivery that passed is still being processed
C1_Witness ==
    \E e \in EventIds : \E d1 \in Passed(e), d2 \in Skipped(e) :
        /\ req[d1].pc \notin {"done", "getContact"}
        /\ req[d2].pc = "done"

C3_ReuseResolved ==
    /\ \A c \in DOMAIN contacts :
         LET mine == {i \in DOMAIN conversations : conversations[i].contactId = c}
             r == getOrCreateConversation(conversations, messages, c, clock)
         IN (mine # {} /\ \A i \in mine : conversations[i].status = "resolved") =>
              /\ r.conversationId \in mine
              /\ \A i \in mine : i <= r.conversationId
              /\ ~r.isNew
              /\ DOMAIN r.conversations = DOMAIN conversations
              /\ r.conversations[r.conversationId] =
                   [conversations[r.conversationId] EXCEPT !.status = "ai"]
              /\ \A i \in DOMAIN conversations :
                   i # r.conversationId => r.conversations[i] = conversations[i]
              /\ r.messages = messages
    /\ \A d \in Deliveries :
         req[d].reactivated =>
           /\ ~req[d].isNew
           /\ req[d].conversationId \in DOMAIN conversations
           /\ conversations[req[d].conversationId].contactId = req[d].contactId
           /\ Len(conversations) = Cardinality({x \in Deliveries : req[x].isNew})

\* a delivery reactivated a resolved conversation and stored its message in it
C3_Witness ==
    \E d \in Deliveries :
        /\ req[d].reactivated /\ "insertUser" \in req[d].ran
        /\ Len(conversations) = 1
        /\ Cardinality({i \in DOMAIN messages :
                          messages[i].content = CONSULTANT_WELCOME_MESSAGE}) = 1

\* C4: every contact has at most one conversation in status ai or human.
C4_AtMostOneActive ==
    \A c \in DOMAIN contacts :
        Cardinality({i \in DOMAIN conversations :
                       /\ conversations[i].contactId = c
                       /\ conversations[i].status \in {"ai", "human"}}) <= 1

\* a contact's conversation was taken out of ai by a dashboard operation or an
\* outbound message and an inbound message of that contact was processed after it
C4_Witness ==
    \E d \in Deliveries :
        /\ "getConversation" \in req[d].ran /\ ~req[d].isNew
        /\ (adminOps > 0 \/ \E x \in Deliveries : "markOutbound" \in req[x].ran)
        /\ conversations[req[d].conversationId].status \in {"human", "ai"}

\* the first stored message of conversation c
FirstMessageOf(c) ==
    LET S == {i \in DOMAIN messages : messages[i].conversationId = c}
    IN messages[CHOOSE i \in S : \A j \in S : i <= j]

\* C5: the first message of every conversation is the welcome message from assistant
\* (so it precedes the user's message); a delivery for which get-or-create made a new
\* conversation runs neither catalog check nor the generation, sends nothing but the
\* canned welcome text, at most once, and does attempt that send whenever the status
\* it read is ai.
C5_WelcomeShortCircuit ==
    /\ \A c \in DOMAIN conversations :
         /\ \E i \in DOMAIN messages : messages[i].conversationId = c
         /\ FirstMessageOf(c).sender = "assistant"
         /\ FirstMessageOf(c).content = CONSULTANT_WELCOME_MESSAGE
    /\ \A d \in Deliveries :
         req[d].isNew =>
           /\ req[d].ran \cap {"single", "multi", "generate", "insertAssistant"} = {}
           /\ \A i \in Sent(d) :
                outbox[i].kind = "text" /\ outbox[i].text = CONSULTANT_WELCOME_MESSAGE
           /\ Cardinality(Sent(d)) <= 1
           /\ "send" \in req[d].ran => req[d].replyText = CONSULTANT_WELCOME_MESSAGE
           /\ (req[d].status = "ai" /\ req[d].pc = "done") => "send" \in req[d].ran

\* a new conversation was created and its delivery ended having sent the welcome text
C5_Witness ==
    \E d \in Deliveries :
        /\ req[d].isNew /\ req[d].pc = "done"
        /\ Cardinality(Sent(d)) = 1
        /\ Len(messages) >= 2 /\ messages[2].sender = "user"

\* C6: marking on an outbound message, from any reachable state and for any phone,
\* sets the status of the phone's contact's active conversation to human, leaves
\* every other conversation (resolved ones included) and every other field as it
\* is, changes nothing when the phone has no contact or no active conversation, and
\* applied a second time changes nothing more.  The handler's outbound branch does
\* nothing else: it touches no contact, sends nothing and runs no inbound step.
C6_MarkHumanOnOutbound ==
    /\ \A p \in Phones :
         LET after == markOutboundAsHuman(contacts, conversations, p)
             owner(i) == \E c \in DOMAIN contacts :
                            contacts[c].phone = p /\ conversations[i].contactId = c
         IN /\ DOMAIN after = DOMAIN conversations
            /\ \A i \in DOMAIN conversations :
                 after[i] = IF owner(i) /\ conversations[i].status \in {"ai", "human"}
                              THEN [conversations[i] EXCEPT !.status = "human"]
                              ELSE conversations[i]
            /\ markOutboundAsHuman(contacts, after, p) = after
    /\ \A d \in Deliveries :
         req[d].kind = "outbound" =>
           /\ req[d].ran \subseteq {"markOutbound"}
           /\ req[d].contactId = NoId /\ req[d].conversationId = NoId
           /\ Sent(d) = {}
           /\ req[d].pc = "done" => req[d].response = 200

\* an outbound message was handled for a phone whose conversation is now human,
\* while another contact's conversation is resolved
C6_Witness ==
    \E d \in Deliveries :
        /\ req[d].kind = "outbound" /\ req[d].pc = "done"
        /\ \E c \in DOMAIN contacts, i \in DOMAIN conversations :
               /\ contacts[c].phone = req[d].phone
               /\ conversations[i].contactId = c
               /\ conversations[i].status = "human"

\* C7: every POST whose body is valid JSON is answered 200, whatever happens inside.
C7_AlwaysAcknowledged ==
    \A d \in Deliveries :
        (req[d].pc = "done" /\ req[d].kind # "invalid") => req[d].response = 200

\* C8: a POST whose body is not parseable JSON is answered 400 in the step that
\* receives it, which leaves every store, the clock and the outbox unchanged, and
\* nothing is done for that delivery afterwards.
C8_InvalidJsonRejected ==
    [][\A d \in Deliveries :
         /\ (req[d].pc = "idle" /\ req'[d].kind = "invalid") =>
              /\ req'[d].pc = "done" /\ req'[d].response = 400
              /\ UNCHANGED <<stores, clock, outbox>>
         /\ req[d].kind = "invalid" => req'[d] = req[d]]_vars

\* a malformed body was rejected when the stores already held rows
C8_Witness ==
    \E d \in Deliveries :
        /\ req[d].kind = "invalid" /\ req[d].response = 400
        /\ Len(messages) > 0 /\ ycloudProcessedEvents # {}

\* a catalog's keyword is contained, case-insensitively, in the trimmed location
KeywordMatches(c, location) ==
    /\ c.locationKeyword # <<>>
    /\ trim(location) # <<>>
    /\ includes(toLowerCase(trim(location)), toLowerCase(c.locationKeyword))

Matching(cats, location) == {i \in DOMAIN cats : KeywordMatches(cats[i], location)}

\* C9: when the lookup by location finds a catalog, it is one with the least order
\* among the catalogs whose keyword matches the location, wherever it is stored
\* (stated for matching catalogs that all carry an order value).
C9_LowestOrderAmongMatches ==
    LET cats == resolution.seen
        M == Matching(cats, resolution.location)
    IN (resolution.byKeyword # NoId /\ \A i \in M : cats[i].hasOrder) =>
         \A i \in M : CatalogById(cats, resolution.byKeyword).order <= cats[i].order

\* the catalogs of the example: tolima with order 1, bogota with order 0 and default
IsTolimaRow(c) ==
    /\ toLowerCase(c.locationKeyword) = KwTolima
    /\ c.hasOrder /\ c.order = 1 /\ ~c.isDefault

IsBogotaRow(c) ==
    /\ toLowerCase(c.locationKeyword) = toLowerCase(KwBogota)
    /\ c.hasOrder /\ c.order = 0 /\ c.isDefault

IsExample(cats) ==
    /\ Len(cats) = 2
    /\ \E i, j \in DOMAIN cats : IsTolimaRow(cats[i]) /\ IsBogotaRow(cats[j])

\* C10: a dispatch whose lookup by location found nothing ends with the catalog of
\* the second lookup: a catalog flagged isDefault when one exists, else a catalog of
\* least order, else none (and then it stops with nothing to send); it ends with
\* none only when no catalog exists.  On the example's two catalogs, stored in
\* either order, "Ibague, Tolima" gives the tolima catalog at the first lookup and
\* "Girardot" gives nothing at the first lookup and the default catalog at the second.
C10_DefaultFallback ==
    /\ (resolution.pc \in {"done", "none"} /\ resolution.byKeyword = NoId) =>
         LET cats == resolution.seen
             flagged == {i \in DOMAIN cats : cats[i].isDefault}
         IN /\ flagged # {} =>
                 /\ resolution.pc = "done"
                 /\ \E i \in flagged : cats[i].id = resolution.chosen
            /\ (flagged = {} /\ cats # <<>>) =>
                 /\ resolution.pc = "done"
                 /\ \E i \in DOMAIN cats :
                      /\ cats[i].id = resolution.chosen
                      /\ \A j \in DOMAIN cats : OrderKey(cats[i]) <= OrderKey(cats[j])
            /\ cats = <<>> <=> resolution.pc = "none"
            /\ resolution.pc = "none" => resolution.chosen = NoId
    /\ (resolution.pc = "default") =>
         /\ resolution.byKeyword = NoId
         /\ Matching(resolution.seen, resolution.location) = {}
    /\ (resolution.pc = "done" /\ resolution.byKeyword # NoId) =>
         /\ resolution.chosen = resolution.byKeyword
         /\ resolution.byKeyword \in
              {resolution.seen[i].id :
                 i \in Matching(resolution.seen, resolution.location)}
    /\ IsExample(whatsappCatalogs) =>
         /\ IsTolimaRow(CatalogById(whatsappCatalogs,
                          getByLocationKeyword(whatsappCatalogs, LocIbague)))
         /\ getByLocationKeyword(whatsappCatalogs, LocGirardot) = NoId
         /\ IsBogotaRow(CatalogById(whatsappCatalogs, getDefault(whatsappCatalogs)))
    /\ (IsExample(resolution.seen) /\ resolution.pc = "done") =>
         /\ (resolution.location = LocIbague /\ resolution.byKeyword # NoId) =>
              IsTolimaRow(CatalogById(resolution.seen, resolution.chosen))
         /\ resolution.location = LocGirardot =>
              IsBogotaRow(CatalogById(resolution.seen, resolution.chosen))

\* "Girardot" was resolved on the example's catalogs, the tolima catalog stored first
C10_Witness ==
    /\ resolution.pc = "done"
    /\ resolution.location = LocGirardot
    /\ resolution.byKeyword = NoId
    /\ IsExample(resolution.seen)
    /\ IsTolimaRow(resolution.seen[1])
    /\ IsBogotaRow(CatalogById(resolution.seen, resolution.chosen))

\* ---------------------------------------------------------- links and remote jobs
\* the jobs scheduled by the last operation on the links or the catalogs
JobsOfLastOp == SubSeq(scheduled, linkOp.jobs + 1, Len(scheduled))

\* the items of the deleteFromMetaCatalogs jobs among jobs, in order
RECURSIVE DeleteItemsOf(_)
DeleteItemsOf(jobs) ==
    IF jobs = <<>> THEN <<>>
    ELSE IF Head(jobs).fn = "deleteFromMetaCatalogs"
      THEN Head(jobs).items \o DeleteItemsOf(Tail(jobs))
    ELSE DeleteItemsOf(Tail(jobs))

\* the syncProductToMetaCatalog jobs among jobs, in order
SyncJobsOf(jobs) == SelectSeq(jobs, LAMBDA j : j.fn = "syncProductToMetaCatalog")

\* the Meta id of the catalog with _id catalogId, "" when there is no such catalog
MetaIdOf(cats, catalogId) ==
    IF GetCatalog(cats, catalogId) = NoId THEN ""
    ELSE cats[GetCatalog(cats, catalogId)].whatsappCatalogId

\* C11: no two links share a (listing, catalog) pair, whatever sequence of
\* setPropertyInCatalog, removePropertyFromCatalog, setPropertyCatalogs (with any
\* entries, repeated catalogs included) and seedCatalogProductos ran; and linking a
\* pair that is linked already adds no row.
C11_OneLinkPerPair ==
    /\ \A i, j \in DOMAIN propertyWhatsAppCatalog :
         (/\ propertyWhatsAppCatalog[i].propertyId = propertyWhatsAppCatalog[j].propertyId
          /\ propertyWhatsAppCatalog[i].catalogId = propertyWhatsAppCatalog[j].catalogId)
           => i = j
    /\ (/\ linkOp.name = "setPropertyInCatalog"
        /\ ByPropertyAndCatalog(linkOp.links, linkOp.propertyId, linkOp.catalogId) # {})
         => Len(propertyWhatsAppCatalog) = Len(linkOp.links)

\* C12: in the deployment whose link mutations schedule the Meta jobs, after
\* setPropertyInCatalog(listing, catalog, productId) on a catalog that exists, the
\* pair has exactly one link, it holds productId, and the call scheduled
\* exactly one remote sync job: CREATE when the pair had no link, UPDATE when it had.
C12_SetLinksAndSchedulesOne ==
    (/\ metaSync
     /\ linkOp.name = "setPropertyInCatalog"
     /\ GetCatalog(linkOp.catalogs, linkOp.catalogId) # NoId) =>
       LET now == ByPropertyAndCatalog(propertyWhatsAppCatalog,
                                       linkOp.propertyId, linkOp.catalogId)
           before == ByPropertyAndCatalog(linkOp.links,
                                          linkOp.propertyId, linkOp.catalogId)
       IN /\ Cardinality(now) = 1
          /\ \A i \in now :
               propertyWhatsAppCatalog[i].productRetailerId = linkOp.productRetailerId
          /\ JobsOfLastOp =
               <<SyncJob(MetaIdOf(linkOp.catalogs, linkOp.catalogId), linkOp.propertyId,
                         IF before = {} THEN "CREATE" ELSE "UPDATE")>>

\* C13: in the deployment whose link mutations schedule the Meta jobs,
\* removePropertyFromCatalog(listing, catalog) deletes the pair's link and
\* schedules a remote DELETE for that catalog and the link's product id, every other
\* link staying as it was; when the pair has no link it changes nothing and
\* schedules nothing.
C13_RemoveOnlyThePair ==
    (metaSync /\ linkOp.name = "removePropertyFromCatalog") =>
       LET before == ByPropertyAndCatalog(linkOp.links,
                                          linkOp.propertyId, linkOp.catalogId)
           gone == RowsAt(linkOp.links, before)
       IN IF before = {}
            THEN /\ propertyWhatsAppCatalog = linkOp.links
                 /\ JobsOfLastOp = <<>>
            ELSE /\ ByPropertyAndCatalog(propertyWhatsAppCatalog,
                                         linkOp.propertyId, linkOp.catalogId) = {}
                 /\ propertyWhatsAppCatalog = DeleteRows(linkOp.links, before)
                 /\ SyncJobsOf(JobsOfLastOp) = <<>>
                 /\ DeleteItemsOf(JobsOfLastOp) =
                      [k \in 1..Len(gone) |->
                         DeleteItem(MetaIdOf(linkOp.catalogs, linkOp.catalogId),
                                    gone[k].productRetailerId)]

\* C14: in the deployment whose link mutations schedule the Meta jobs, after
\* setPropertyCatalogs(listing, entries) the listing's links are the
\* entries given (in their order), one remote DELETE was scheduled for each link the
\* listing had before, one remote CREATE for each entry, and the links of the other
\* listings are as before. With no entry and two links before: no link, two remote
\* deletes, no create.
C14_ReplaceIsExact ==
    (metaSync /\ linkOp.name = "setPropertyCatalogs") =>
       LET p == linkOp.propertyId
           previous == RowsAt(linkOp.links, ByProperty(linkOp.links, p))
           jobs == JobsOfLastOp
       IN /\ RowsAt(propertyWhatsAppCatalog, ByProperty(propertyWhatsAppCatalog, p)) =
               [k \in 1..Len(linkOp.entries) |->
                  Link(p, linkOp.entries[k].catalogId,
                       linkOp.entries[k].productRetailerId)]
          /\ DeleteRows(propertyWhatsAppCatalog, ByProperty(propertyWhatsAppCatalog, p)) =
               DeleteRows(linkOp.links, ByProperty(linkOp.links, p))
          /\ DeleteItemsOf(jobs) =
               [k \in 1..Len(previous) |->
                  DeleteItem(MetaIdOf(linkOp.catalogs, previous[k].catalogId),
                             previous[k].productRetailerId)]
          /\ SyncJobsOf(jobs) =
               [k \in 1..Len(linkOp.entries) |->
                  SyncJob(MetaIdOf(linkOp.catalogs, linkOp.entries[k].catalogId),
                          p, "CREATE")]

\* C15: in the deployment whose link mutations schedule the Meta jobs, an
\* operation that deletes a link (unlinking a pair, replacing a listing's
\* links, removing a catalog with its links) schedules, itself, a remote DELETE for
\* the catalog and the product id of each link it deleted.
C15_DeletedLinksDeletedRemotely ==
    metaSync =>
    \A k \in DOMAIN linkOp.deleted :
       \E n \in DOMAIN DeleteItemsOf(JobsOfLastOp) :
          DeleteItemsOf(JobsOfLastOp)[n] =
             DeleteItem(MetaIdOf(linkOp.catalogs, linkOp.deleted[k].catalogId),
                        linkOp.deleted[k].productRetailerId)

\* the links of catalog catalogId whose listing is among propertyIds
RequestedLinks(rows, catalogId, propertyIds) ==
    {i \in DOMAIN rows : rows[i].catalogId = catalogId /\ rows[i].propertyId \in propertyIds}

\* C19: getProductRetailerIdsForProperties(catalog, listings) returns one entry
\* (listing, productId) for each link of that catalog whose listing was requested and
\* nothing else: a requested listing without a link in the catalog is left out, no
\* listing that was not requested and no link of another catalog appears, and the
\* query never fails.
C19_ExactlyTheRequestedLinks ==
    lookup.pc = "done" =>
       LET S == RequestedLinks(lookup.rows, lookup.catalogId, lookup.propertyIds)
           chosen == RowsAt(lookup.rows, S)
       IN /\ Len(lookup.result) = Cardinality(S)
          /\ \A k \in DOMAIN lookup.result :
               /\ lookup.result[k].propertyId = chosen[k].propertyId
               /\ lookup.result[k].productRetailerId = chosen[k].productRetailerId
               /\ lookup.result[k].propertyId \in lookup.propertyIds
          /\ \A q \in lookup.propertyIds :
               ByPropertyAndCatalog(lookup.rows, q, lookup.catalogId) = {} =>
                 \A k \in DOMAIN lookup.result : lookup.result[k].propertyId # q

\* a query for one listing on a catalog that also links a listing not requested,
\* while the requested listing is linked in another catalog too: one entry comes back
C19_Witness ==
    /\ lookup.pc = "done"
    /\ Cardinality(lookup.propertyIds) = 1
    /\ Len(lookup.result) = 1
    /\ \E i \in ByCatalog(lookup.rows, lookup.catalogId) :
         lookup.rows[i].propertyId \notin lookup.propertyIds
    /\ \E i \in DOMAIN lookup.rows :
         /\ lookup.rows[i].catalogId # lookup.catalogId
         /\ lookup.rows[i].propertyId \in lookup.propertyIds

\* ------------------------------------------------------------------ the payload
\* the base price buildMetaPayload compares with: priceBase, 0 when absent
BasePrice(prop) == IF prop.hasPriceBase THEN prop.priceBase ELSE 0

\* C16: the payload built for a listing has a sale_price exactly when priceBaja is
\* present, above 0 and below the base price (priceBase, 0 when absent); the amount
\* is then priceBaja, and otherwise there is no such field. For priceBase 500000:
\* priceBaja 500000 gives no sale_price, priceBaja 400000 gives "400000 COP".
C16_SalePriceOnlyForDiscount ==
    payloadCall.pc = "built" =>
       LET prop == payloadCall.prop
           payload == payloadCall.payload
       IN /\ payload.hasSalePrice <=>
               (/\ prop.hasPriceBaja
                /\ prop.priceBaja > 0
                /\ prop.priceBaja < BasePrice(prop))
          /\ payload.hasSalePrice => payload.sale_price = Cop(prop.priceBaja)
          /\ ~payload.hasSalePrice => payload.sale_price = ""
          /\ (prop.hasPriceBase /\ prop.priceBase = 500000 /\ prop.hasPriceBaja) =>
               /\ prop.priceBaja = 500000 => ~payload.hasSalePrice
               /\ prop.priceBaja = 400000 =>
                    payload.hasSalePrice /\ payload.sale_price = "400000 COP"

\* a payload was built for priceBase 500000 and priceBaja 500000
C16_Witness ==
    /\ payloadCall.pc = "built"
    /\ payloadCall.prop.hasPriceBase /\ payloadCall.prop.priceBase = 500000
    /\ payloadCall.prop.hasPriceBaja /\ payloadCall.prop.priceBaja = 500000
    /\ ~payloadCall.payload.hasSalePrice
    /\ payloadCall.payload.price = "500000 COP"

\* ---------------------------------------------------------------- bulk resyncs
\* the requests of the run that were answered ok
SyncedOk == {k \in DOMAIN syncRun.requests : syncRun.requests[k].response = "ok"}

\* C17: a bulk resync of a listing linked to several catalogs that sent a request,
\* and whose requests were answered with success or with a non-success status, ends
\* having sent a request to every catalog the listing is linked to, whatever the
\* answers were, and reports the number of catalogs that answered with success.
C17_FailureDoesNotStopTheRest ==
    (/\ syncRun.pc \in {"returned", "threw"}
     /\ Len(syncRun.toSync) > 1
     /\ syncRun.requests # <<>>
     /\ \A k \in DOMAIN syncRun.requests : syncRun.requests[k].response # "rejected") =>
       /\ Len(syncRun.requests) = Len(syncRun.toSync)
       /\ syncRun.pc = "returned"
       /\ syncRun.hasResult
       /\ syncRun.synced = Cardinality(SyncedOk)

\* ---------------------------------------------------- failures and empty events
\* C18: every delivery handed to processInboundMessage ends with the user's message
\* stored and lastMessageAt updated, whether or not a catalog check, the generation
\* of the reply or the send failed on the way.
C18_BookkeepingDespiteFailures ==
    \A d \in Deliveries :
       (req[d].pc = "done" /\ "getContact" \in req[d].ran) =>
          /\ "insertUser" \in req[d].ran
          /\ "updateLast" \in req[d].ran

\* C20: the delivery of an inbound-message event with neither text nor media link
\* is answered 200 in the step that receives it, and that step writes no
\* ProcessedEvent, creates no contact, conversation or message and sends nothing;
\* nothing is done for that delivery afterwards.
C20_EmptyEventIgnored ==
    [][\A d \in Deliveries :
         /\ (req[d].pc = "idle" /\ req'[d].bare) =>
              /\ req'[d].pc = "done"
              /\ req'[d].response = 200
              /\ req'[d].ran = {}
              /\ UNCHANGED <<ycloudProcessedEvents, contacts, conversations,
                             messages, outbox>>
         /\ req[d].bare => req'[d] = req[d]]_vars

\* an event with an empty text body was answered 200 with nothing done for it, while
\* the stores hold what an earlier delivery of the same event id left
C20_Witness ==
    \E d \in Deliveries :
       /\ req[d].bare /\ req[d].kind = "ignored"
       /\ req[d].pc = "done" /\ req[d].response = 200 /\ req[d].ran = {}
       /\ Sent(d) = {}
       /\ req[d].eventId \in ycloudProcessedEvents
       /\ Len(messages) > 0

\* ------------------------------------------------- invariants of the two tables
\* C29: at most one row of whatsappCatalogs is flagged isDefault, whatever catalog
\* mutations ran.
C29_AtMostOneDefault ==
    Cardinality({i \in DOMAIN whatsappCatalogs : whatsappCatalogs[i].isDefault}) <= 1

\* C30: every link of propertyWhatsAppCatalog names a catalog that is stored,
\* whatever link mutations and catalog removals ran.
C30_NoDanglingLink ==
    \A i \in DOMAIN propertyWhatsAppCatalog :
       GetCatalog(whatsappCatalogs, propertyWhatsAppCatalog[i].catalogId) # NoId

\* ------------------------------------------------------------------------ C23
\* delivery d takes a step that generates or sends an automated reply
Replies(d) ==
    \/ req[d].pc = "generate" /\ req'[d].pc # "generate"
    \/ /\ Len(outbox') = Len(outbox) + 1
       /\ outbox'[Len(outbox')].by = d

\* C23: in every interleaving of a delivery with the dashboard's operations and the
\* outbound branch, the status is read after the user's message is stored, and each
\* step that generates or sends an automated reply on an existing conversation is
\* taken while that conversation's stored status is ai.
C23_RepliesOnlyWhileAi ==
    [][\A d \in Deliveries :
          /\ "getById" \in req'[d].ran => "insertUser" \in req'[d].ran
          /\ (~req[d].isNew /\ Replies(d))
               => conversations[req[d].conversationId].status = "ai"]_vars

\* ------------------------------------------------------------------------ C24
\* the deliveries of inbound messages from phone p that have a conversation
Conversing(p) ==
    {d \in Deliveries : req[d].phone = p /\ "getConversation" \in req[d].ran}

\* C24: two inbound messages from one phone that had no contact, processed
\* concurrently, leave one contact of that phone and one conversation of that
\* contact, holding one welcome message; both deliveries use that conversation and
\* one of them made it.
C24_OneContactOneConversation ==
    \A p \in Phones :
       /\ Cardinality({c \in DOMAIN contacts : contacts[c].phone = p}) <= 1
       /\ \A d, e \in Conversing(p) :
            /\ req[d].contactId = req[e].contactId
            /\ req[d].conversationId = req[e].conversationId
            /\ d # e => req[d].isNew # req[e].isNew
       /\ \A d \in Conversing(p) :
            /\ Cardinality({i \in DOMAIN conversations :
                              conversations[i].contactId = req[d].contactId}) = 1
            /\ Cardinality({i \in DOMAIN messages :
                              /\ messages[i].conversationId = req[d].conversationId
                              /\ messages[i].sender = "assistant"
                              /\ messages[i].content = CONSULTANT_WELCOME_MESSAGE
                              /\ \A j \in 1..(i - 1) :
                                    messages[j].conversationId
                                       # req[d].conversationId}) = 1

\* two deliveries of different events from one phone are both under way with a
\* conversation, the second having got its contact before the first got its
\* conversation
C24_Witness ==
    \E p \in Phones :
       /\ Conversing(p) = {1, 2}
       /\ req[1].eventId # req[2].eventId
       /\ req[1].pc \notin {"idle", "done"} /\ req[2].pc \notin {"idle", "done"}
       /\ req[1].pc = "insertUser"

\* ------------------------------------------------------------------------ C25
\* the single-listing check of delivery d sent its card
SingleCardSent(d) == \E i \in Sent(d) : outbox[i].kind = "product"

RetailerIdsOf(entries) == [k \in DOMAIN entries |-> entries[k].productRetailerId]

C27_UnlinkedListingGoneRemotely ==
    \A i \in DOMAIN whatsappCatalogs :
       ( /\ linkOp.name = "removePropertyFromCatalog"
         /\ ~linkOp.threw
         /\ linkOp.deleted # <<>>
         /\ linkOp.catalogId = whatsappCatalogs[i].id
         /\ metaCatalog.ran = Len(scheduled) )
       => MetaProduct(whatsappCatalogs[i].whatsappCatalogId, linkOp.propertyId)
             \notin metaCatalog.products

\* ------------------------------------------------------------------------ C21
\* the location a message's place is to be read as: small letters, one space
\* between its words
PlaceRead(place) ==
    CASE place = EL_PENOL -> <<"e", "l", " ", "p", "e", "ñ", "o", "l">>
      [] place = TOLIMA -> <<"t", "o", "l", "i", "m", "a">>
      [] OTHER -> place

\* 00:00 of the first day of the clock's month, in days since 1970-01-01
FirstOfMonth(now) ==
    CASE now = [year |-> 2026, month |-> 10] -> 20758
      [] now = [year |-> 2026, month |-> 11] -> 20788
      [] now = [year |-> 2024, month |-> 1] -> 19754
      [] now = [year |-> 2025, month |-> 1] -> 20120

\* C21: parseLocationAndDates returns null unless the message holds a location
\* phrase and a day pair with both days in 1..31; for a message that names a place
\* and the days d1 and d2 it returns that place, 00:00 of day d1 of the clock's
\* month for the entry and 00:00 of day d2 + 1 of that month for the exit, a day
\* number past the month's end counting on into the next month.
C21_LocationAndDayPair ==
    parseCall.pc = "dates" =>
       LET in == parseCall.input
           r == parseCall.result
           msg == toLowerCase(trim(parseCall.userMessage))
           named == in.form \in {"para", "en"}
           inRange == in.d1 \in 1..31 /\ in.d2 \in 1..31
       IN /\ r.found =>
               /\ LocationOf(msg) # <<>>
               /\ DatesOf(msg).matched
               /\ parseInt(DatesOf(msg).first) \in 1..31
               /\ parseInt(DatesOf(msg).second) \in 1..31
          /\ in.form \in DateForms => (r.found <=> named /\ inRange)
          /\ (named /\ inRange) =>
               /\ r.location = PlaceRead(in.place)
               /\ r.fechaEntrada = FirstOfMonth(parseCall.now) + in.d1 - 1
               /\ r.fechaSalida = FirstOfMonth(parseCall.now) + in.d2

\* "para restrepo del 20 al 21 para 10 personas" parsed in November 2026: restrepo,
\* entry on the 20th, exit on the 22nd
C21_Witness ==
    /\ parseCall.pc = "dates"
    /\ parseCall.userMessage = PARA \o <<" ">> \o RESTREPO
          \o <<" ", "d", "e", "l", " ", "2", "0", " ", "a", "l", " ", "2", "1">>
          \o PARA_10_PERSONAS
    /\ parseCall.now = [year |-> 2026, month |-> 10]
    /\ parseCall.result = [found |-> TRUE, location |-> RESTREPO,
                           fechaEntrada |-> 20777, fechaSalida |-> 20779]

\* ------------------------------------------------------------------------ C28
\* C28: whenever parseLocationAndDates returns a result, its entry is before its
\* exit, the first day being after the second included.
C28_EntryBeforeExit ==
    (parseCall.pc = "dates" /\ parseCall.result.found)
       => parseCall.result.fechaEntrada < parseCall.result.fechaSalida

\* ------------------------------------------------------------------------ C22
\* the patterns of parseSingleFincaRequest that match the trimmed message
Matching3(msg) == {k \in 1..3 : PatternMatch(k, msg).matched}

\* C22: parseSingleFincaRequest returns null for an input of less than 4
\* characters; a term it returns has at least 2 characters and is none of la, el,
\* de, un, una; the first of the three patterns that matches decides alone: its
\* term when that is accepted, null when it is rejected or when no pattern matches.
C22_FirstMatchDecides ==
    parseCall.pc = "term" =>
       LET msg == trim(parseCall.userMessage)
           r == parseCall.result
           M == Matching3(msg)
           first == CHOOSE k \in M : \A j \in M : k <= j
           term == trim(PatternMatch(first, msg).capture)
       IN /\ Len(parseCall.userMessage) < 4 => ~r.found
          /\ r.found => /\ Len(r.term) >= 2
                        /\ toLowerCase(r.term) \notin {LA, EL, DE, UN, UNA}
          /\ M = {} => ~r.found
          /\ (Len(msg) >= 4 /\ M # {}) =>
               r = IF Accepted(term) THEN [found |-> TRUE, term |-> term] ELSE NoTerm

====
